---- MODULE Spec2Model ----
(***************************************************************************)
(* Hindsight: the incremental FAISS index maintenance cycle                *)
(* (app/rebuild_index.py) together with the maintenance operations that    *)
(* touch the same two files (app/debugger.py, app/cleanup.py) and the      *)
(* search process that reads them (app/hindsight_search.py).               *)
(*                                                                         *)
(* Document keys are the paths of the .txt files of OCR_TEXT_DIR; they are *)
(* numbered 1..NumDocs in lexicographic order of path, so a.txt = 1,       *)
(* b.txt = 2, c.txt = 3, d.txt = 4.                                        *)
(***************************************************************************)
EXTENDS Integers, Sequences, FiniteSets, TLC

\* ------------------------------------------------------------- constants
NUM_RESULTS == 5    \* get_faiss_matches(query, num_results=5)

\* ---------------------------------------------------------------- bounds
MaxPoll == 6        \* largest POLL_INTERVAL tried, seconds
MaxTicks == 8       \* seconds of daemon time followed
NumDocs == 4        \* number of candidate document paths
BATCH_SIZE == 2     \* documents per batch (rebuild_index.py:60 sets 64)
MaxCap == 3         \* largest FAISS_MAX_FILES_PER_CYCLE value tried
MaxFaults == 1      \* failures and kills injected in one behaviour
MaxEnv == 1         \* changes made by the outside world in one behaviour
SmallK == 2         \* a result count below the default one

Keys == 1..NumDocs

\* The two callers of incremental_rebuild_faiss: the script run by the
\* rebuild timer and the debugger's rebuild_index menu entry.
Procs == {"timer", "debugger"}

\* ------------------------------------------------------- document source
\* File contents are strings over a whitespace character and a letter.
Contents == { <<>>, <<" ", " ">>, <<" ", "h">> }

IsSpace(ch) == ch \in {" ", "\n"}

RECURSIVE LStrip(_)
LStrip(s) == IF s = <<>> THEN s
             ELSE IF IsSpace(Head(s)) THEN LStrip(Tail(s)) ELSE s

RECURSIVE RStrip(_)
RStrip(s) == IF s = <<>> THEN s
             ELSE IF IsSpace(s[Len(s)]) THEN RStrip(SubSeq(s, 1, Len(s) - 1)) ELSE s

\* str.strip()
Strip(s) == RStrip(LStrip(s))

\* `not content.strip()`
IsBlankLoose(content) == content = <<>>
IsBlank(content) == Strip(content) = <<>>

NoFile == [st |-> "absent", content |-> <<>>]
Unreadable == [st |-> "unreadable", content |-> <<>>]
TextFile(c) == [st |-> "ok", content |-> c]
FileStates == {NoFile, Unreadable} \cup {TextFile(c) : c \in Contents}

\* model.encode: a deterministic function of the text
Embed(text) == <<"vec", text>>

\* --------------------------------------------------------------- storage
NoArtifact == [kind |-> "none", data |-> <<>>]
Corrupt == [kind |-> "corrupt", data |-> <<>>]
IndexFile(ix) == [kind |-> "index", data |-> ix]
ListFile(m) == [kind |-> "list", data |-> m]
ObjectFile == [kind |-> "object", data |-> <<>>]

VARIABLES
    files,                 \* OCR_TEXT_DIR: key -> file state
    diskIndex,             \* FAISS_INDEX_PATH
    diskMap,               \* ID_MAP_PATH
    conf,                  \* hindsight.conf: [cap, budget] of section Search
    pc,                    \* position of each invocation
    cap,                   \* FAISS_MAX_FILES_PER_CYCLE read at import
    budget,                \* FAISS_MAX_SECONDS # 0, read at import
    faiss_index,           \* sequence of [id, vec]
    id_to_filepath_map,
    unprocessed_files,
    pos,                   \* position of the for loop in unprocessed_files
    batch_texts,
    batch_paths,
    processed,
    added_files_count,
    ret,                   \* call site flush_batch returns to
    faults,                \* failures and kills injected so far
    envSteps,              \* outside changes made so far
    hist,                  \* what the log of the invocations so far shows
    spc,                   \* position of the search process
    search_faiss_index,    \* hindsight_search.faiss_index (None: no artifact)
    search_id_map,         \* hindsight_search.id_to_filepath_map
    embedding_model,       \* hindsight_search.embedding_model is loaded
    refiner_model,         \* hindsight_search.refiner_model is configured
    answer,                \* what the last query call was given and gave back
    hs,                    \* the hybrid_search call in progress, step by step
    recoll_index,          \* the Recoll index: key -> text it holds, or NoFile
    dry_run,               \* the dry_run argument of each invocation
    switches,              \* ENABLE_FAISS and RECOLL_MAX_SECONDS > 0, read at import
    daemon                 \* memory_daemon: its settings, globals and clock

store == <<diskIndex, diskMap>>
config == <<conf, cap, budget, dry_run, switches>>
capture == <<files, daemon>>
memory == <<faiss_index, id_to_filepath_map>>
loopvars == <<unprocessed_files, pos, batch_texts, batch_paths, processed,
              added_files_count, ret>>
counters == <<faults, envSteps>>
backends == <<hs, recoll_index>>
search == <<spc, search_faiss_index, search_id_map, embedding_model,
            refiner_model, answer, hs, recoll_index>>
vars == <<files, diskIndex, diskMap, conf, pc, cap, budget, faiss_index,
          id_to_filepath_map, unprocessed_files, pos, batch_texts,
          batch_paths, processed, added_files_count, ret, faults, envSteps,
          hist, spc, search_faiss_index, search_id_map, embedding_model,
          refiner_model, answer, hs, recoll_index, dry_run, switches,
          daemon>>

\* ------------------------------------------------------------- helpers
Range(s) == {s[i] : i \in 1..Len(s)}

Min(S) == CHOOSE x \in S : \A y \in S : x <= y

\* sorted(list(S))
RECURSIVE Sorted(_)
Sorted(S) == IF S = {} THEN <<>>
             ELSE LET m == Min(S) IN <<m>> \o Sorted(S \ {m})

\* glob.glob(os.path.join(OCR_TEXT_DIR, "*.txt"))
GlobTxt == {k \in Keys : files[k].st # "absent"}

get_unprocessed_files_all(id_map) == Sorted(GlobTxt)

get_unprocessed_files_unsorted(id_map) ==
    LET S == GlobTxt \ Range(id_map)
    IN  IF S = {} THEN <<>>
        ELSE LET top == CHOOSE x \in S : \A y \in S : y <= x
             IN  <<top>> \o Sorted(S \ {top})

get_unprocessed_files(id_map) == Sorted(GlobTxt \ Range(id_map))

\* The same keeping the last documents of the list.
ApplyCapLast(unp, c) ==
    IF c # 0 /\ Len(unp) > c THEN SubSeq(unp, Len(unp) - c + 1, Len(unp)) ELSE unp

\* unprocessed_files[:FAISS_MAX_FILES_PER_CYCLE] when the cap applies
ApplyCap(unp, c) ==
    IF c # 0 /\ Len(unp) > c THEN SubSeq(unp, 1, c) ELSE unp

Ids(ix) == [i \in 1..Len(ix) |-> ix[i].id]

\* np.arange(start_id, start_id + len(paths)) paired with the vectors
NewEntriesFrom(start_id, texts) ==
    [j \in 1..Len(texts) |-> [id |-> start_id + j - 1, vec |-> Embed(texts[j])]]

\* ------------------------------------------------------------ the log
\* What the log lines of the invocations so far tell:
\*   last      "none", "running", "done" (returned), "killed", "raised" (an
\*             exception left the script) or "caught" (an exception left
\*             incremental_rebuild_faiss and its caller handled it): the
\*             most recent invocation
\*   start     the persisted map when the most recent invocation started
\*   startN    the number of persisted vectors at that time
\*   trunc     the cap cut its unseen list, or the time budget stopped it
\*   prev      the invocation before it: "none", "done", "clean" (returned,
\*             neither cut nor stopped) or "killed"
\*   prevStart the persisted map when a killed previous invocation started
\*   skipped   the documents skipped as blank so far
\*   failed    the documents whose read raised so far
\*   dropped   the documents of the batches whose embedding call raised in
\*             the most recent invocation
\*   edited    the documents rewritten so far
\*   stale     the documents that were in the persisted map, and had been
\*             rewritten, when the most recent invocation started
\*   recoll    how the Recoll update of the most recent invocation ended
\*   cleaned   clean_faiss_index has run since the most recent invocation
\*             looked for the two files, and deleted at least one of them
\*   afterClean  the most recent invocation is the first one to look for
\*             the two files after such a run
NoHist == [last |-> "none", start |-> <<>>, startN |-> 0, trunc |-> FALSE,
           prev |-> "none", prevStart |-> <<>>, skipped |-> {},
           failed |-> {}, dropped |-> {}, edited |-> {}, stale |-> {},
           recoll |-> "none", cleaned |-> FALSE, afterClean |-> FALSE]

Started(h, persisted, ntotal) ==
    [h EXCEPT !.prev = IF h.last = "done" /\ ~h.trunc THEN "clean" ELSE h.last,
              !.prevStart = IF h.last = "killed" THEN h.start ELSE <<>>,
              !.start = persisted,
              !.startN = ntotal,
              !.trunc = FALSE,
              !.dropped = {},
              !.stale = h.edited \cap {persisted[i] : i \in 1..Len(persisted)},
              !.recoll = "none",
              !.afterClean = h.cleaned,
              !.cleaned = FALSE,
              !.last = "running"]

Returned(h) == [h EXCEPT !.last = "done"]
Killed(h) == [h EXCEPT !.last = "killed"]
Raised(h) == [h EXCEPT !.last = "raised"]
Caught(h) == [h EXCEPT !.last = "caught"]
Recolled(h, st) == [h EXCEPT !.recoll = st]

\* Who handles an exception that leaves incremental_rebuild_faiss: the
\* debugger's rebuild_index has an `except Exception`, the script run by the
\* timer calls the function bare under `if __name__ == "__main__"`.
Propagated(p, h) == IF p = "debugger" THEN Caught(h) ELSE Raised(h)
Truncated(h, cut) == [h EXCEPT !.trunc = @ \/ cut]
Skipped(h, k) == [h EXCEPT !.skipped = @ \cup {k}]
ReadFailed(h, k) == [h EXCEPT !.failed = @ \cup {k}]
Dropped(h, paths) == [h EXCEPT !.dropped = @ \cup {paths[i] : i \in 1..Len(paths)}]
Edited(h, k) == [h EXCEPT !.edited = @ \cup {k}]

\* ------------------------------------------------------------ the cycle
Fresh == <<>>      \* faiss.IndexIDMap(faiss.IndexFlatL2(768)), and []

Idle(p) == pc[p] = "idle"

\* The fallback values: ENABLE_FAISS true, RECOLL_MAX_SECONDS 25.
DefaultSwitches == [faiss |-> TRUE, limit |-> TRUE]

Switches == [faiss : BOOLEAN, limit : BOOLEAN]

\* What an invocation holds once it has returned or died.
Forget(p) ==
    /\ pc' = [pc EXCEPT ![p] = "idle"]
    /\ UNCHANGED conf
    /\ cap' = [cap EXCEPT ![p] = 0]
    /\ budget' = [budget EXCEPT ![p] = FALSE]
    /\ dry_run' = [dry_run EXCEPT ![p] = FALSE]
    /\ switches' = [switches EXCEPT ![p] = DefaultSwitches]
    /\ faiss_index' = [faiss_index EXCEPT ![p] = Fresh]
    /\ id_to_filepath_map' = [id_to_filepath_map EXCEPT ![p] = <<>>]
    /\ unprocessed_files' = [unprocessed_files EXCEPT ![p] = <<>>]
    /\ pos' = [pos EXCEPT ![p] = 1]
    /\ batch_texts' = [batch_texts EXCEPT ![p] = <<>>]
    /\ batch_paths' = [batch_paths EXCEPT ![p] = <<>>]
    /\ processed' = [processed EXCEPT ![p] = 0]
    /\ added_files_count' = [added_files_count EXCEPT ![p] = 0]
    /\ ret' = [ret EXCEPT ![p] = "loop"]

\* The module is imported (the configuration is read) and
\* incremental_rebuild_faiss() is entered; ENABLE_FAISS is set and
\* ENABLE_RECOLL is not (the Recoll step returns at once).
Start(p) ==
    /\ Idle(p)
    /\ pc' = [pc EXCEPT ![p] = "load_index"]
    /\ cap' = [cap EXCEPT ![p] = conf.cap]
    /\ budget' = [budget EXCEPT ![p] = conf.budget]
    /\ dry_run' = [dry_run EXCEPT ![p] = FALSE]
    /\ switches' = [switches EXCEPT ![p] = DefaultSwitches]
    /\ hist' = Started(hist, diskMap.data, Len(diskIndex.data))
    /\ UNCHANGED <<capture, store, conf, memory, loopvars, counters>>
    /\ UNCHANGED search

\* The module is imported and incremental_rebuild_faiss(dry_run) is entered
\* with ENABLE_RECOLL and ENABLE_FAISS set (their fallback values).
StartCycle(p, dry) ==
    /\ Idle(p)
    /\ pc' = [pc EXCEPT ![p] = "recoll"]
    /\ cap' = [cap EXCEPT ![p] = conf.cap]
    /\ budget' = [budget EXCEPT ![p] = conf.budget]
    /\ dry_run' = [dry_run EXCEPT ![p] = dry]
    /\ switches' = [switches EXCEPT ![p] = DefaultSwitches]
    /\ hist' = Started(hist, diskMap.data, Len(diskIndex.data))
    /\ UNCHANGED <<capture, store, conf, memory, loopvars, counters>>
    /\ UNCHANGED search

\* The same for incremental_rebuild_faiss() with ENABLE_RECOLL set and any
\* values of ENABLE_FAISS and RECOLL_MAX_SECONDS in the configuration.
StartCycleWith(p, sw) ==
    /\ Idle(p)
    /\ pc' = [pc EXCEPT ![p] = "recoll"]
    /\ cap' = [cap EXCEPT ![p] = conf.cap]
    /\ budget' = [budget EXCEPT ![p] = conf.budget]
    /\ dry_run' = [dry_run EXCEPT ![p] = FALSE]
    /\ switches' = [switches EXCEPT ![p] = sw]
    /\ hist' = Started(hist, diskMap.data, Len(diskIndex.data))
    /\ UNCHANGED <<capture, store, conf, memory, loopvars, counters>>
    /\ UNCHANGED search

\* What `recollindex -m` has taken in when it ends or is sent SIGTERM at
\* RECOLL_MAX_SECONDS: the new and changed documents of `done`. Nothing is
\* taken in when the executable or its configuration directory is missing.
RecollProgress == SUBSET Keys

RecollUpdate(ix, fs, done) ==
    [k \in Keys |-> IF k \in done /\ fs[k].st = "ok" THEN fs[k] ELSE ix[k]]

\* How run_recoll_incremental ends: the early returns (ENABLE_RECOLL off,
\* no recollindex on the PATH, no configuration directory), recollindex
\* exiting with 0 or another code, SIGTERM at the time limit, an exception.
RecollSkips == {"disabled", "no_executable", "no_conf_dir"}

RecollEnds == {"exit0", "nonzero", "exception"}

RecollRuns ==
    [st : RecollSkips, done : {{}}] \cup [st : RecollEnds, done : RecollProgress]

\* After SIGTERM, communicate(timeout=5) returns or raises TimeoutExpired
RecollStops == [st : {"terminated", "timeout_expired"}, done : RecollProgress]

ContinueAfterRecollUnlessException(st) ==
    st \notin {"exception", "timeout_expired"}

\* Every outcome is logged and the function returns; the caller wraps the
\* call in try/except as well.
ContinueAfterRecoll(st) == TRUE

\* The end of Step 1 and the ENABLE_FAISS test that follows it
RecollReturn(p, run) ==
    /\ recoll_index' = RecollUpdate(recoll_index, files, run.done)
    /\ IF ContinueAfterRecoll(run.st) /\ switches[p].faiss
       THEN /\ pc' = [pc EXCEPT ![p] = "load_index"]
            /\ hist' = Recolled(hist, run.st)
            /\ UNCHANGED <<config, memory, loopvars>>
       ELSE /\ Forget(p)
            /\ hist' = IF ContinueAfterRecoll(run.st)
                       THEN Returned(Recolled(hist, run.st))
                       ELSE Propagated(p, Recolled(hist, run.st))
    /\ UNCHANGED <<capture, store, faults, envSteps>>
    /\ UNCHANGED <<spc, search_faiss_index, search_id_map, embedding_model,
                   refiner_model, answer, hs>>

\* Step 1 of incremental_rebuild_faiss, taken whatever dry_run is, when
\* recollindex is not started or ends before the time limit
run_recoll_incremental(p, run) ==
    /\ pc[p] = "recoll"
    /\ RecollReturn(p, run)

\* recollindex was started and does not exit on its own: the poll loop runs
RecollKeepsRunning(p) ==
    /\ pc[p] = "recoll"
    /\ pc' = [pc EXCEPT ![p] = "recoll_wait"]
    /\ UNCHANGED <<capture, store, config, memory, loopvars, counters, hist>>
    /\ UNCHANGED search

TimeLimitAlways(sw) == TRUE

\* `RECOLL_MAX_SECONDS > 0 and (time.time() - start) > RECOLL_MAX_SECONDS`
TimeLimit(sw) == sw.limit

\* The time limit passes: SIGTERM, then communicate(timeout=5), which returns
\* the exit code or raises TimeoutExpired
RecollTimeLimit(p, run) ==
    /\ pc[p] = "recoll_wait"
    /\ TimeLimit(switches[p])
    /\ RecollReturn(p, run)

\* os.path.exists on both paths, then faiss.read_index
LoadIndex(p) ==
    /\ pc[p] = "load_index"
    /\ IF diskIndex.kind # "none" /\ diskMap.kind # "none"
       THEN IF diskIndex.kind = "index"
            THEN /\ faiss_index' = [faiss_index EXCEPT ![p] = diskIndex.data]
                 /\ pc' = [pc EXCEPT ![p] = "load_map"]
            ELSE /\ faiss_index' = [faiss_index EXCEPT ![p] = Fresh]
                 /\ pc' = [pc EXCEPT ![p] = "reconcile"]
       ELSE /\ faiss_index' = [faiss_index EXCEPT ![p] = Fresh]
            /\ pc' = [pc EXCEPT ![p] = "reconcile"]
    /\ UNCHANGED <<capture, store, config, id_to_filepath_map, loopvars, counters,
                   hist>>
    /\ UNCHANGED search

\* json.load of the map, the isinstance check, the except branch
LoadedPair(ix, mapfile) ==
    IF mapfile.kind = "list" THEN <<ix, mapfile.data>>
    ELSE IF mapfile.kind = "object" THEN <<ix, <<>>>>
    ELSE <<Fresh, <<>>>>

LoadMap(p) ==
    /\ pc[p] = "load_map"
    /\ LET pair == LoadedPair(faiss_index[p], diskMap)
       IN  /\ faiss_index' = [faiss_index EXCEPT ![p] = pair[1]]
           /\ id_to_filepath_map' = [id_to_filepath_map EXCEPT ![p] = pair[2]]
    /\ pc' = [pc EXCEPT ![p] = "reconcile"]
    /\ UNCHANGED <<capture, store, config, loopvars, counters, hist>>
    /\ UNCHANGED search

\* The same without the early return.
NothingToDoNever(unp) == FALSE

\* `if total_new == 0`: "No new files to index", return
NothingToDo(unp) == Len(unp) = 0

\* get_unprocessed_files, the cap, the early return on an empty list and
\* the return of a dry run
Reconcile(p) ==
    /\ pc[p] = "reconcile"
    /\ LET all == get_unprocessed_files(id_to_filepath_map[p])
           unp == ApplyCap(all, cap[p])
       IN  IF NothingToDo(unp) \/ dry_run[p]
           THEN /\ Forget(p)
                /\ hist' = Returned(hist)
           ELSE /\ unprocessed_files' = [unprocessed_files EXCEPT ![p] = unp]
                /\ pc' = [pc EXCEPT ![p] = "loop"]
                /\ hist' = Truncated(hist, Len(unp) < Len(all))
                /\ UNCHANGED <<config, memory, pos, batch_texts, batch_paths,
                               processed, added_files_count, ret>>
    /\ UNCHANGED <<capture, store, counters>>
    /\ UNCHANGED search

\* `model = SentenceTransformer(EMBEDDING_MODEL)` raises: the statement
\* stands between the dry-run return and the loop, outside every try.
LoadModelFails(p) ==
    /\ pc[p] = "loop"
    /\ pos[p] = 1
    /\ faults < MaxFaults
    /\ faults' = faults + 1
    /\ Forget(p)
    /\ hist' = Propagated(p, hist)
    /\ UNCHANGED <<capture, store, envSteps>>
    /\ UNCHANGED search

\* `FAISS_MAX_SECONDS and (time.time() - time_budget_start) > FAISS_MAX_SECONDS`:
\* the values the test can take for an invocation
BudgetOutcomes(p) == IF budget[p] THEN BOOLEAN ELSE {FALSE}

\* The same returning from the function at once.
AfterBudgetBreakReturn == "flush_exit"

\* Where `break` on the time budget leads: out of the for loop, to the
\* residual flush_batch(batch_texts, batch_paths).
AfterBudgetBreak == "flush"

\* The same with the handler around the whole loop: the loop is left.
AfterReadErrorAbort(i, n) == n + 1

\* The loop position after the `except Exception` of the loop body (the
\* handler is inside the for loop): the next document.
AfterReadError(i, n) == i + 1

\* One iteration of `for file_path in unprocessed_files`, up to the call of
\* flush_batch; the exhausted loop falls through to the residual flush.
Loop(p) ==
    /\ pc[p] = "loop"
    /\ IF pos[p] > Len(unprocessed_files[p])
       THEN /\ pc' = [pc EXCEPT ![p] = "flush"]
            /\ ret' = [ret EXCEPT ![p] = "end"]
            /\ UNCHANGED <<pos, batch_texts, batch_paths, processed, hist>>
       ELSE LET file_path == unprocessed_files[p][pos[p]]
                f == files[file_path]
            IN  IF f.st # "ok"
                THEN \* open or read raised
                     /\ pos' = [pos EXCEPT ![p] =
                                   AfterReadError(@, Len(unprocessed_files[p]))]
                     /\ hist' = ReadFailed(hist, file_path)
                     /\ UNCHANGED <<pc, ret, batch_texts, batch_paths, processed>>
                ELSE IF IsBlank(f.content)
                THEN \* `continue`
                     /\ pos' = [pos EXCEPT ![p] = @ + 1]
                     /\ hist' = Skipped(hist, file_path)
                     /\ UNCHANGED <<pc, ret, batch_texts, batch_paths, processed>>
                ELSE /\ batch_texts' = [batch_texts EXCEPT ![p] = Append(@, f.content)]
                     /\ batch_paths' = [batch_paths EXCEPT ![p] = Append(@, file_path)]
                     /\ processed' = [processed EXCEPT ![p] = @ + 1]
                     /\ IF Len(batch_texts[p]) + 1 >= BATCH_SIZE
                        THEN /\ pc' = [pc EXCEPT ![p] = "flush"]
                             /\ ret' = [ret EXCEPT ![p] = "loop"]
                             /\ UNCHANGED <<pos, hist>>
                        ELSE \E over \in BudgetOutcomes(p) :
                                IF over
                                THEN /\ pc' = [pc EXCEPT ![p] = AfterBudgetBreak]
                                     /\ ret' = [ret EXCEPT ![p] = "end"]
                                     /\ hist' = Truncated(hist, TRUE)
                                     /\ UNCHANGED pos
                                ELSE /\ pos' = [pos EXCEPT ![p] = @ + 1]
                                     /\ UNCHANGED <<pc, ret, hist>>
    /\ UNCHANGED <<capture, store, config, memory, unprocessed_files,
                   added_files_count, counters>>
    /\ UNCHANGED search

\* flush_batch up to the persisting: model.encode, add_with_ids, extend
AddBatch(ix, id_map, texts, paths) ==
    <<ix \o NewEntriesFrom(Len(id_map), texts), id_map \o paths>>

\* The same with the map extended before the embedding call.
AfterEncodeErrorLate(ix, id_map, paths) == <<ix, id_map \o paths>>

\* What the invocation holds when model.encode has raised: the except
\* branch of flush_batch is entered before add_with_ids and extend.
AfterEncodeError(ix, id_map, paths) == <<ix, id_map>>

\* The same persisting once, at the residual flush that ends the cycle.
PersistAtEnd(r) == IF r = "end" THEN "write_index" ELSE "flush_exit"

\* "Persist after each batch for durability": every call of flush_batch
\* that has extended the index goes on to faiss.write_index, whatever the
\* call site.
PersistAfterBatch(r) == "write_index"

FlushEncode(p, ok) ==
    /\ pc[p] = "flush"
    /\ IF batch_texts[p] = <<>>
       THEN /\ ok
            /\ pc' = [pc EXCEPT ![p] = "flush_exit"]
            /\ UNCHANGED <<memory, faults, hist>>
       ELSE IF ok
            THEN LET added == AddBatch(faiss_index[p], id_to_filepath_map[p],
                                       batch_texts[p], batch_paths[p])
                 IN  /\ faiss_index' = [faiss_index EXCEPT ![p] = added[1]]
                     /\ id_to_filepath_map' = [id_to_filepath_map EXCEPT ![p] = added[2]]
                     /\ pc' = [pc EXCEPT ![p] = PersistAfterBatch(ret[p])]
                     /\ UNCHANGED <<faults, hist>>
            ELSE \* model.encode raised
                 /\ faults < MaxFaults
                 /\ faults' = faults + 1
                 /\ LET kept == AfterEncodeError(faiss_index[p], id_to_filepath_map[p],
                                                 batch_paths[p])
                    IN  /\ faiss_index' = [faiss_index EXCEPT ![p] = kept[1]]
                        /\ id_to_filepath_map' = [id_to_filepath_map EXCEPT ![p] = kept[2]]
                 /\ hist' = Dropped(hist, batch_paths[p])
                 /\ pc' = [pc EXCEPT ![p] = "flush_exit"]
    /\ UNCHANGED <<capture, store, config, loopvars, envSteps>>
    /\ UNCHANGED search

\* What a write leaves behind: the new file, the old file (it raised before
\* touching it) or a truncated file (it raised midway).
WriteOutcomes == {"ok", "failed", "torn"}

Written(old, new, out) ==
    IF out = "ok" THEN new ELSE IF out = "torn" THEN Corrupt ELSE old

CountFault(out) ==
    IF out = "ok" THEN UNCHANGED faults
    ELSE faults < MaxFaults /\ faults' = faults + 1

\* faiss.write_index(faiss_index, FAISS_INDEX_PATH)
WriteIndex(p, out) ==
    /\ pc[p] = "write_index"
    /\ CountFault(out)
    /\ diskIndex' = Written(diskIndex, IndexFile(faiss_index[p]), out)
    /\ pc' = [pc EXCEPT ![p] = IF out = "ok" THEN "write_map" ELSE "flush_exit"]
    /\ UNCHANGED <<capture, diskMap, config, memory, loopvars, envSteps, hist>>
    /\ UNCHANGED search

\* json.dump(id_to_filepath_map, f) into ID_MAP_PATH
WriteMap(p, out) ==
    /\ pc[p] = "write_map"
    /\ CountFault(out)
    /\ diskMap' = Written(diskMap, ListFile(id_to_filepath_map[p]), out)
    /\ pc' = [pc EXCEPT ![p] = IF out = "ok" THEN "committed" ELSE "flush_exit"]
    /\ UNCHANGED <<capture, diskIndex, config, memory, loopvars, envSteps, hist>>
    /\ UNCHANGED search

\* added_files_count += len(paths), the "Flushed batch" log line
Committed(p) ==
    /\ pc[p] = "committed"
    /\ added_files_count' = [added_files_count EXCEPT ![p] = @ + Len(batch_paths[p])]
    /\ pc' = [pc EXCEPT ![p] = "flush_exit"]
    /\ UNCHANGED <<capture, store, config, memory, unprocessed_files, pos,
                   batch_texts, batch_paths, processed, ret, counters, hist>>
    /\ UNCHANGED search

\* flush_batch returns: into the loop (clear the batch, test the time
\* budget) or, after the residual flush, to the summary and the return.
FlushReturn(p) ==
    /\ pc[p] = "flush_exit"
    /\ IF ret[p] = "loop"
       THEN /\ batch_texts' = [batch_texts EXCEPT ![p] = <<>>]
            /\ batch_paths' = [batch_paths EXCEPT ![p] = <<>>]
            /\ \E over \in BudgetOutcomes(p) :
                  IF over
                  THEN /\ pc' = [pc EXCEPT ![p] = AfterBudgetBreak]
                       /\ ret' = [ret EXCEPT ![p] = "end"]
                       /\ hist' = Truncated(hist, TRUE)
                       /\ UNCHANGED pos
                  ELSE /\ pc' = [pc EXCEPT ![p] = "loop"]
                       /\ pos' = [pos EXCEPT ![p] = @ + 1]
                       /\ UNCHANGED <<ret, hist>>
            /\ UNCHANGED <<config, memory, unprocessed_files, processed,
                           added_files_count>>
       ELSE /\ Forget(p)
            /\ hist' = Returned(hist)
    /\ UNCHANGED <<capture, store, counters>>
    /\ UNCHANGED search

\* The process is killed (SIGKILL, power loss). A kill in the middle of a
\* write leaves a truncated file.
Kill(p, torn) ==
    /\ ~Idle(p)
    /\ faults < MaxFaults
    /\ faults' = faults + 1
    /\ torn => pc[p] \in {"write_index", "write_map"}
    /\ diskIndex' = IF torn /\ pc[p] = "write_index" THEN Corrupt ELSE diskIndex
    /\ diskMap' = IF torn /\ pc[p] = "write_map" THEN Corrupt ELSE diskMap
    /\ Forget(p)
    /\ hist' = Killed(hist)
    /\ UNCHANGED <<capture, envSteps>>
    /\ UNCHANGED search

\* The process is killed after a batch has been committed in the loop and
\* before the next document is consumed.
KillBetweenBatches(p) ==
    /\ pc[p] = "committed"
    /\ ret[p] = "loop"
    /\ pos[p] < Len(unprocessed_files[p])
    /\ Forget(p)
    /\ hist' = Killed(hist)
    /\ UNCHANGED <<capture, store, counters>>
    /\ UNCHANGED search

\* ------------------------------------------------------ the outside world
\* The capture daemon writes a new OCR text file.
WriteDoc(k, f) ==
    /\ envSteps < MaxEnv
    /\ files[k] = NoFile
    /\ f # NoFile
    /\ files' = [files EXCEPT ![k] = f]
    /\ UNCHANGED daemon
    /\ envSteps' = envSteps + 1
    /\ UNCHANGED <<store, pc, config, memory, loopvars, faults, hist>>
    /\ UNCHANGED search

\* FAISS_MAX_FILES_PER_CYCLE is edited in hindsight.conf; the next import of
\* the module reads it.
EditConf(c) ==
    /\ envSteps < MaxEnv
    /\ c # conf.cap
    /\ conf' = [conf EXCEPT !.cap = c]
    /\ envSteps' = envSteps + 1
    /\ UNCHANGED <<capture, store, pc, cap, budget, dry_run, switches, memory,
                   loopvars, faults, hist>>
    /\ UNCHANGED search

\* What an existing document may be rewritten with: blanks, another text.
Rewrites == {<<" ", " ">>, <<"h", "h">>}

\* An OCR text file that the persisted map names is written again with
\* another content.
ModifyDoc(k, c) ==
    /\ envSteps < MaxEnv
    /\ k \in Range(diskMap.data)
    /\ files[k].st = "ok"
    /\ files[k].content # c
    /\ files' = [files EXCEPT ![k] = TextFile(c)]
    /\ UNCHANGED daemon
    /\ envSteps' = envSteps + 1
    /\ hist' = Edited(hist, k)
    /\ UNCHANGED <<store, pc, config, memory, loopvars, faults>>
    /\ UNCHANGED search

\* debugger.clear_database once confirmed: json.dump({}, f) into ID_MAP_PATH
clear_database ==
    /\ envSteps < MaxEnv
    /\ diskMap.kind # "none"
    /\ diskMap' = ObjectFile
    /\ envSteps' = envSteps + 1
    /\ UNCHANGED <<capture, diskIndex, pc, config, memory, loopvars, faults, hist>>
    /\ UNCHANGED search

\* An invocation that has not yet looked for the two files is the next
\* cycle of a cleanup; one that has is followed by the next cycle.
Cleaned(h, gone, loading) ==
    IF loading THEN [h EXCEPT !.afterClean = @ \/ gone]
    ELSE [h EXCEPT !.cleaned = @ \/ gone]

\* What os.remove leaves of a file: nothing, or the file when it raises
\* OSError (logged); a file that did not exist is not touched.
Removed(f, ok) == IF f.kind # "none" /\ ok THEN NoArtifact ELSE f

\* cleanup.clean_faiss_index(dry_run=False), run from the manager's menu
\* whatever the indexer is doing
clean_faiss_index(okIndex, okMap) ==
    /\ envSteps < MaxEnv
    /\ diskIndex' = Removed(diskIndex, okIndex)
    /\ diskMap' = Removed(diskMap, okMap)
    /\ hist' = Cleaned(hist, diskIndex' # diskIndex \/ diskMap' # diskMap,
                       \E p \in Procs : pc[p] \in {"recoll", "recoll_wait", "load_index"})
    /\ envSteps' = envSteps + 1
    /\ UNCHANGED <<capture, pc, config, memory, loopvars, faults>>
    /\ UNCHANGED search

\* ------------------------------------------------------ the capture daemon
\* app/memory_daemon.py: the pause logic of its main loop.

LOCK_CHECK_INTERVAL == 5     \* _LOCK_CHECK_INTERVAL, seconds

\* POLL_INTERVAL (no fallback), PAUSE_WHEN_LOCKED and PAUSE_ON_SUSPEND
Settings == [poll : 1..MaxPoll, pause_locked : BOOLEAN, pause_suspend : BOOLEAN]

DefaultSettings == [poll |-> 1, pause_locked |-> TRUE, pause_suspend |-> TRUE]

\* The module globals after import. time.time() is far beyond
\* _LOCK_CHECK_INTERVAL, so the clock starts there; _cached_locked is not
\* defined yet and is given a value at the entry of every call.
\*   locked    the LockedHint of the session, as loginctl would report it
\*   checked   what the most recent `loginctl show-session` determined
\*   iter      what the most recent iteration of the loop did
\*   iter_suspend  _suspend_state as that iteration read it
\*   call      the most recent call of session_locked
Boot(cfg) ==
    [cfg |-> cfg, now |-> LOCK_CHECK_INTERVAL, last_lock_check |-> 0,
     cached_locked |-> FALSE, suspend_state |-> FALSE, locked |-> FALSE,
     checked |-> "none", iter |-> "none", iter_suspend |-> FALSE,
     call |-> [made |-> FALSE, within |-> FALSE, queried |-> FALSE,
               ret |-> FALSE, prior |-> "none"]]

Hint(b) == IF b THEN "locked" ELSE "unlocked"

\* `if ' _cached_locked' not in globals(): _cached_locked = False`: the key
\* carries a leading space, no global has that name, the test is always true
CachedAtEntry(c) == FALSE

\* What `loginctl show-session` gives: the hint, no session id, an exception
LoginctlOutcomes == {"ok", "no_session", "error"}

\* session_locked() at time d.now: the value returned and the globals after it
session_locked(d, out) ==
    LET c == CachedAtEntry(d.cached_locked)
        within == d.now - d.last_lock_check < LOCK_CHECK_INTERVAL
        ask == ~within /\ out # "no_session"
        seen == ask /\ out = "ok"
        r == IF within THEN c ELSE IF seen THEN d.locked ELSE FALSE
    IN  [d EXCEPT !.cached_locked = IF seen THEN d.locked ELSE c,
                  !.last_lock_check = IF within THEN @ ELSE d.now,
                  !.checked = IF seen THEN Hint(d.locked)
                              ELSE IF within THEN @ ELSE "none",
                  !.call = [made |-> TRUE, within |-> within, queried |-> ask,
                            ret |-> r, prior |-> d.checked]]

\* One iteration of the `while True` loop of main, its sleep included
Iterate(out) ==
    /\ daemon.now + daemon.cfg.poll <= LOCK_CHECK_INTERVAL + MaxTicks
    /\ LET slept(d) == [d EXCEPT !.now = @ + d.cfg.poll]
           seen == [daemon EXCEPT !.iter_suspend = daemon.suspend_state]
       IN  IF seen.cfg.pause_suspend /\ seen.suspend_state
           THEN /\ out = "ok"
                /\ daemon' = slept([seen EXCEPT !.iter = "paused_suspend"])
           ELSE IF seen.cfg.pause_locked
           THEN LET d == session_locked(seen, out)
                IN  daemon' = slept([d EXCEPT !.iter = IF d.call.ret
                                                       THEN "paused_locked"
                                                       ELSE "captured"])
           ELSE /\ out = "ok"
                /\ daemon' = slept([seen EXCEPT !.iter = "captured"])
    /\ UNCHANGED <<files, store, pc, config, memory, loopvars, counters, hist>>
    /\ UNCHANGED search

\* The suspend watcher thread reads PrepareForSleep true or false from
\* dbus-monitor; it returns at once when PAUSE_ON_SUSPEND is off.
SuspendSignal(b) ==
    /\ daemon.cfg.pause_suspend
    /\ daemon.suspend_state # b
    /\ daemon' = [daemon EXCEPT !.suspend_state = b]
    /\ UNCHANGED <<files, store, pc, config, memory, loopvars, counters, hist>>
    /\ UNCHANGED search

\* The user locks or unlocks the desktop session.
SetLocked(b) ==
    /\ daemon.locked # b
    /\ daemon' = [daemon EXCEPT !.locked = b]
    /\ UNCHANGED <<files, store, pc, config, memory, loopvars, counters, hist>>
    /\ UNCHANGED search

\* ------------------------------------------------------ the search process
\* app/hindsight_search.py, imported by a long-running process.

\* `if faiss_index is None or not id_to_filepath_map or not embedding_model`
Unavailable(ix, m, model) == ix.kind = "none" \/ m = <<>> \/ ~model

\* The distance of two embeddings: 0 for the same text, 1 otherwise.
Distance(u, v) == IF u = v THEN 0 ELSE 1

\* faiss_index.search(query_vector, k): the labels of the k nearest vectors,
\* nearest first (the earlier added first among equals), filled up with the
\* label -1 when the index holds fewer than k vectors.
RECURSIVE Nearest(_, _, _, _)
Nearest(ix, left, qv, k) ==
    IF k = 0 THEN <<>>
    ELSE IF left = {}
    THEN <<[label |-> -1, distance |-> 2]>> \o Nearest(ix, left, qv, k - 1)
    ELSE LET best == CHOOSE i \in left : \A j \in left :
                        \/ Distance(ix[i].vec, qv) < Distance(ix[j].vec, qv)
                        \/ Distance(ix[i].vec, qv) = Distance(ix[j].vec, qv) /\ i <= j
         IN  <<[label |-> ix[best].id, distance |-> Distance(ix[best].vec, qv)]>>
                 \o Nearest(ix, left \ {best}, qv, k - 1)

FaissSearch(ix, qv, k) == Nearest(ix, 1..Len(ix), qv, k)

\* `if idx == -1: continue`
LiveAll(hits) == hits
Live(hits) == SelectSeq(hits, LAMBDA h : h.label # -1)

\* Python's list indexing, m[i]
PyIndexable(m, i) == i \in (0 - Len(m))..(Len(m) - 1)
PyAt(m, i) == IF i >= 0 THEN m[i + 1] ELSE m[Len(m) + i + 1]

\* id_to_filepath_map[idx] and the open of the file succeed
Resolvable(m, fs, h) == PyIndexable(m, h.label) /\ fs[PyAt(m, h.label)].st = "ok"

FaissResult(m, fs, h) ==
    [source |-> "faiss (open-source)", content |-> fs[PyAt(m, h.label)].content,
     distance |-> h.distance]

\* What a call gives back: a list, or an exception that leaves the function.
Gives(results) == [raised |-> FALSE, results |-> results]
Raises == [raised |-> TRUE, results |-> <<>>]

\* get_faiss_matches without its guard and without its try.
get_faiss_matches_bare(query, k, ix, m, model, fs) ==
    IF ix.kind = "none" \/ ~model THEN Raises
    ELSE LET live == Live(FaissSearch(ix.data, Embed(query), k))
         IN  IF \E j \in 1..Len(live) : ~Resolvable(m, fs, live[j])
             THEN Raises
             ELSE Gives([j \in 1..Len(live) |-> FaissResult(m, fs, live[j])])

get_faiss_matches(query, k, ix, m, model, fs) ==
    IF Unavailable(ix, m, model) THEN Gives(<<>>)
    ELSE LET live == Live(FaissSearch(ix.data, Embed(query), k))
         IN  IF \E j \in 1..Len(live) : ~Resolvable(m, fs, live[j])
             THEN Gives(<<>>)      \* `except Exception: return []`
             ELSE Gives([j \in 1..Len(live) |-> FaissResult(m, fs, live[j])])

\* str.split('\n')
RECURSIVE SplitLines(_, _)
SplitLines(s, cur) ==
    IF s = <<>> THEN <<cur>>
    ELSE IF Head(s) = "\n" THEN <<cur>> \o SplitLines(Tail(s), <<>>)
    ELSE SplitLines(Tail(s), Append(cur, Head(s)))

\* What running the recoll command can come to: its output with exit
\* status 0, a non-zero exit status, no executable to run.
RecollOutputs == { <<>>, <<"a", "\n">>, <<"a", "\n", "b">> }
RecollOutcomes == {[st |-> "ok", raw |-> o] : o \in RecollOutputs}
                      \cup {[st |-> "nonzero", raw |-> <<>>], [st |-> "missing", raw |-> <<>>]}

get_recoll_matches(query, out) ==
    IF out.st = "ok"
    THEN LET search_results_raw == Strip(out.raw)
             lines == IF search_results_raw # <<>>
                      THEN SplitLines(search_results_raw, <<>>) ELSE <<>>
         IN  Gives([i \in 1..Len(lines) |-> [source |-> "recoll", content |-> lines[i]]])
    ELSE IF out.st = "nonzero" THEN Gives(<<>>)     \* CalledProcessError
    ELSE Raises                                      \* FileNotFoundError

\* What generate_content can come to: a text, or an exception.
RefinerOutcomes == {[st |-> "ok", text |-> <<"r", " ">>], [st |-> "raised", text |-> <<>>]}

\* The same giving an empty query when there is no refinement.
refine_query_with_gemini_empty(query, model, out) ==
    IF model /\ out.st = "ok" THEN Strip(out.text) ELSE <<>>

refine_query_with_gemini(query, model, out) ==
    IF ~model THEN query
    ELSE IF out.st = "ok" THEN Strip(out.text)
    ELSE query

\* The in-memory index and map after a query function has run: none of
\* them assigns a global.
LoadedAfterQueryReset(ix, m) == <<NoArtifact, <<>>>>
LoadedAfterQueryReload(ix, m) ==
    <<diskIndex, IF diskMap.kind = "list" THEN diskMap.data ELSE <<>>>>
LoadedAfterQuery(ix, m) == <<ix, m>>

\* What a call was given and gave back:
\*   refiner       "unconfigured", or the outcome of generate_content
\*   recoll        the outcome of the recoll command
\*   recoll_query  the query get_recoll_matches was called with
\*   keyword       the list get_recoll_matches gave
\*   faiss_query   the query get_faiss_matches was called with
\*   faiss         the list get_faiss_matches gave
\*   files         the documents as they were during the call
NoAnswer == [call |-> "none", query |-> <<>>, k |-> 0, raised |-> FALSE,
             results |-> <<>>, refiner |-> "none", recoll |-> "none",
             recoll_query |-> <<>>, keyword |-> <<>>,
             faiss_query |-> <<>>, faiss |-> <<>>, files |-> <<>>]

\* `get_faiss_matches(query)`: the query the semantic adapter is given
SemanticQueryRefined(query, refined_query) == refined_query
SemanticQuery(query, refined_query) == query

\* `recoll_results + faiss_results`
MergedSemanticFirst(recoll_results, faiss_results) == faiss_results \o recoll_results
Merged(recoll_results, faiss_results) == recoll_results \o faiss_results

hybrid_search(query, rmodel, rout, kout, ix, m, model, fs) ==
    LET refined_query == refine_query_with_gemini(query, rmodel, rout)
        recoll_results == get_recoll_matches(refined_query, kout)
        faiss_query == SemanticQuery(query, refined_query)
        faiss_results == get_faiss_matches(faiss_query, NUM_RESULTS, ix, m, model, fs)
        called == [NoAnswer EXCEPT !.call = "hybrid", !.query = query,
                                   !.k = NUM_RESULTS,
                                   !.refiner = IF rmodel THEN rout.st ELSE "unconfigured",
                                   !.recoll = kout.st,
                                   !.recoll_query = refined_query,
                                   !.files = fs]
    IN  IF recoll_results.raised
        THEN [called EXCEPT !.raised = TRUE]
        ELSE [called EXCEPT !.raised = faiss_results.raised,
                            !.keyword = recoll_results.results,
                            !.faiss_query = faiss_query,
                            !.faiss = faiss_results.results,
                            !.results = Merged(recoll_results.results,
                                               faiss_results.results)]

\* The module is imported: the two models are loaded, or are left None.
Import(em, rm) ==
    /\ spc = "off"
    /\ embedding_model' = em
    /\ refiner_model' = rm
    /\ spc' = "init"
    /\ UNCHANGED <<capture, store, pc, config, memory, loopvars, counters, hist,
                   search_faiss_index, search_id_map, answer, backends>>

\* init_search_components: os.path.exists and faiss.read_index
InitReadIndex ==
    /\ spc = "init"
    /\ IF diskIndex.kind = "index"
       THEN /\ search_faiss_index' = IndexFile(diskIndex.data)
            /\ spc' = "read_map"
       ELSE \* no file, or read_index raised
            /\ spc' = "ready"
            /\ UNCHANGED search_faiss_index
    /\ UNCHANGED <<capture, store, pc, config, memory, loopvars, counters, hist,
                   search_id_map, embedding_model, refiner_model, answer, backends>>

\* init_search_components: json.load of the map ({} counts as empty)
InitReadMap ==
    /\ spc = "read_map"
    /\ search_id_map' = IF diskMap.kind = "list" THEN diskMap.data ELSE <<>>
    /\ spc' = "ready"
    /\ UNCHANGED <<capture, store, pc, config, memory, loopvars, counters, hist,
                   search_faiss_index, embedding_model, refiner_model, answer, backends>>

\* A caller runs get_faiss_matches(query, k)
GetFaissMatches(query, k) ==
    /\ spc = "ready"
    /\ LET got == get_faiss_matches(query, k, search_faiss_index, search_id_map,
                                    embedding_model, files)
           kept == LoadedAfterQuery(search_faiss_index, search_id_map)
       IN  /\ answer' = [NoAnswer EXCEPT !.call = "faiss", !.query = query, !.k = k,
                                        !.raised = got.raised, !.results = got.results,
                                        !.faiss_query = query, !.faiss = got.results,
                                        !.files = files]
           /\ search_faiss_index' = kept[1]
           /\ search_id_map' = kept[2]
    /\ UNCHANGED <<capture, store, pc, config, memory, loopvars, counters, hist,
                   spc, embedding_model, refiner_model, backends>>

\* A caller runs hybrid_search(query)
HybridSearch(query, rout, kout) ==
    /\ spc = "ready"
    /\ LET kept == LoadedAfterQuery(search_faiss_index, search_id_map)
       IN  /\ answer' = hybrid_search(query, refiner_model, rout, kout,
                                      search_faiss_index, search_id_map,
                                      embedding_model, files)
           /\ search_faiss_index' = kept[1]
           /\ search_id_map' = kept[2]
    /\ UNCHANGED <<capture, store, pc, config, memory, loopvars, counters, hist,
                   spc, embedding_model, refiner_model, backends>>

\* hybrid_search step by step. A call waits in generate_content and in
\* subprocess.check_output until the backend answers: neither call is given
\* a timeout. `hangs` names the backend that never answers this call.
NoCall == [pc |-> "idle", query |-> <<>>, hangs |-> "none", refiner |-> "none",
           refined_query |-> <<>>, recoll |-> "none", recoll_results |-> <<>>]

Hangs == {"none", "refiner", "recoll"}

CallHybridSearch(query, hangs) ==
    /\ spc = "ready"
    /\ hs.pc = "idle"
    /\ hs' = [NoCall EXCEPT !.pc = "refine", !.query = query, !.hangs = hangs]
    /\ UNCHANGED <<capture, store, pc, config, memory, loopvars, counters, hist,
                   spc, search_faiss_index, search_id_map, embedding_model,
                   refiner_model, answer, recoll_index>>

\* refine_query_with_gemini returns: at once without a refiner, else when
\* generate_content has answered or raised
RefineReturns(rout) ==
    /\ hs.pc = "refine"
    /\ refiner_model => hs.hangs # "refiner"
    /\ hs' = [hs EXCEPT !.pc = "recoll",
                        !.refiner = IF refiner_model THEN rout.st ELSE "unconfigured",
                        !.refined_query =
                            refine_query_with_gemini(hs.query, refiner_model, rout)]
    /\ UNCHANGED <<capture, store, pc, config, memory, loopvars, counters, hist,
                   spc, search_faiss_index, search_id_map, embedding_model,
                   refiner_model, answer, recoll_index>>

\* get_recoll_matches returns or raises, when the recoll command has ended
\* or could not be started
RecollReturns(kout) ==
    /\ hs.pc = "recoll"
    /\ hs.hangs # "recoll"
    /\ LET got == get_recoll_matches(hs.refined_query, kout)
       IN  IF got.raised
           THEN /\ hs' = NoCall
                /\ answer' = [NoAnswer EXCEPT !.call = "hybrid", !.query = hs.query,
                                              !.k = NUM_RESULTS, !.raised = TRUE,
                                              !.refiner = hs.refiner,
                                              !.recoll = kout.st,
                                              !.recoll_query = hs.refined_query,
                                              !.files = files]
           ELSE /\ hs' = [hs EXCEPT !.pc = "faiss", !.recoll = kout.st,
                                    !.recoll_results = got.results]
                /\ UNCHANGED answer
    /\ UNCHANGED <<capture, store, pc, config, memory, loopvars, counters, hist,
                   spc, search_faiss_index, search_id_map, embedding_model,
                   refiner_model, recoll_index>>

\* get_faiss_matches(query) and the return of hybrid_search
FaissReturns ==
    /\ hs.pc = "faiss"
    /\ LET faiss_query == SemanticQuery(hs.query, hs.refined_query)
           got == get_faiss_matches(faiss_query, NUM_RESULTS, search_faiss_index,
                                    search_id_map, embedding_model, files)
           kept == LoadedAfterQuery(search_faiss_index, search_id_map)
       IN  /\ answer' = [NoAnswer EXCEPT !.call = "hybrid", !.query = hs.query,
                                        !.k = NUM_RESULTS, !.raised = got.raised,
                                        !.refiner = hs.refiner, !.recoll = hs.recoll,
                                        !.recoll_query = hs.refined_query,
                                        !.keyword = hs.recoll_results,
                                        !.faiss_query = faiss_query,
                                        !.faiss = got.results,
                                        !.results = Merged(hs.recoll_results,
                                                           got.results),
                                        !.files = files]
           /\ search_faiss_index' = kept[1]
           /\ search_id_map' = kept[2]
    /\ hs' = NoCall
    /\ UNCHANGED <<capture, store, pc, config, memory, loopvars, counters, hist,
                   spc, embedding_model, refiner_model, recoll_index>>

\* The steps a hybrid_search call in progress can take.
HybridStep ==
    \/ \E rout \in RefinerOutcomes : RefineReturns(rout)
    \/ \E kout \in RecollOutcomes : RecollReturns(kout)
    \/ FaissReturns

\* cleanup.delete_old_data: os.remove of an OCR text file past retention
DeleteDoc(k) ==
    /\ envSteps < MaxEnv
    /\ files[k].st # "absent"
    /\ files' = [files EXCEPT ![k] = NoFile]
    /\ UNCHANGED daemon
    /\ envSteps' = envSteps + 1
    /\ UNCHANGED <<store, pc, config, memory, loopvars, faults, hist, search>>

\* ------------------------------------------------------- specifications
Caps == 0..MaxCap

\* The state before any invocation: some documents captured, no store.
InitIndexing(sources, stores) ==
    /\ files \in sources
    /\ conf \in [cap : Caps, budget : BOOLEAN]
    /\ hist = NoHist
    /\ \E st \in stores : diskIndex = st[1] /\ diskMap = st[2]
    /\ pc = [p \in Procs |-> "idle"]
    /\ cap = [p \in Procs |-> 0]
    /\ budget = [p \in Procs |-> FALSE]
    /\ faiss_index = [p \in Procs |-> Fresh]
    /\ id_to_filepath_map = [p \in Procs |-> <<>>]
    /\ unprocessed_files = [p \in Procs |-> <<>>]
    /\ pos = [p \in Procs |-> 1]
    /\ batch_texts = [p \in Procs |-> <<>>]
    /\ batch_paths = [p \in Procs |-> <<>>]
    /\ processed = [p \in Procs |-> 0]
    /\ added_files_count = [p \in Procs |-> 0]
    /\ ret = [p \in Procs |-> "loop"]
    /\ faults = 0
    /\ envSteps = 0
    /\ spc = "off"
    /\ search_faiss_index = NoArtifact
    /\ search_id_map = <<>>
    /\ embedding_model = FALSE
    /\ refiner_model = FALSE
    /\ answer = NoAnswer
    /\ hs = NoCall
    /\ recoll_index = [k \in Keys |-> NoFile]
    /\ dry_run = [p \in Procs |-> FALSE]
    /\ switches = [p \in Procs |-> DefaultSwitches]

InitOver(sources, stores) ==
    /\ InitIndexing(sources, stores)
    /\ daemon = Boot(DefaultSettings)

InitWith(sources) == InitOver(sources, {<<NoArtifact, NoArtifact>>})

\* Sources of readable documents, some of them blank
PlainSources == [Keys -> {NoFile, TextFile(<<" ", " ">>), TextFile(<<" ", "h">>)}]

\* Every source
AllSources == [Keys -> FileStates]

Init == InitWith(PlainSources)

InitReliable == InitWith(AllSources)

\* The steps of one invocation when nothing fails.
Step(p) ==
    \/ LoadIndex(p)
    \/ LoadMap(p)
    \/ Reconcile(p)
    \/ Loop(p)
    \/ FlushEncode(p, TRUE)
    \/ WriteIndex(p, "ok")
    \/ WriteMap(p, "ok")
    \/ Committed(p)
    \/ FlushReturn(p)

\* The calls of one invocation that raise.
Fault(p) ==
    \/ FlushEncode(p, FALSE)
    \/ \E out \in WriteOutcomes \ {"ok"} : WriteIndex(p, out)
    \/ \E out \in WriteOutcomes \ {"ok"} : WriteMap(p, out)

\* A single indexer (the timer's), with failures, kills and new documents.
Next ==
    \/ Start("timer")
    \/ Step("timer")
    \/ Fault("timer")
    \/ \E torn \in BOOLEAN : Kill("timer", torn)
    \/ \E k \in Keys, f \in FileStates : WriteDoc(k, f)

Spec == Init /\ [][Next]_vars

\* A single indexer, with failures and kills, over documents that are
\* rewritten once the map names them.
NextChange ==
    \/ Start("timer")
    \/ Step("timer")
    \/ Fault("timer")
    \/ \E torn \in BOOLEAN : Kill("timer", torn)
    \/ \E k \in Keys, c \in Rewrites : ModifyDoc(k, c)

InitChange ==
    /\ InitWith({[k \in Keys |-> TextFile(<<" ", "h">>)]})
    /\ conf \in {[cap |-> 0, budget |-> FALSE], [cap |-> MaxCap, budget |-> TRUE]}

SpecChange == InitChange /\ [][NextChange]_vars

\* A single indexer over a fixed source whose embedding calls may raise.
NextEncodeFail ==
    \/ Start("timer")
    \/ Step("timer")
    \/ FlushEncode("timer", FALSE)

SpecEncodeFail == InitReliable /\ [][NextEncodeFail]_vars

\* The same with a process that is never killed.
NextFailures ==
    \/ Start("timer")
    \/ Step("timer")
    \/ Fault("timer")
    \/ \E k \in Keys, f \in FileStates : WriteDoc(k, f)

SpecFailures == Init /\ [][NextFailures]_vars

\* A single indexer over a fixed source; nothing fails, and the process is
\* killed only between two batches.
NextReliable ==
    \/ Start("timer")
    \/ Step("timer")
    \/ KillBetweenBatches("timer")

SpecReliable == InitReliable /\ [][NextReliable]_vars

\* The same without kills, the timer firing and the process running for ever.
NextLive ==
    \/ Start("timer")
    \/ Step("timer")

SpecLive == InitReliable /\ [][NextLive]_vars /\ WF_vars(NextLive)

\* The timer's indexer and the debugger (its rebuild_index and its
\* clear_database) working on the same store; nothing fails.
InitDebugger ==
    /\ InitWith([Keys -> {NoFile, TextFile(<<" ", "h">>)}])
    /\ conf = [cap |-> 0, budget |-> FALSE]     \* the fallback values

NextDebugger ==
    \/ Start("timer")
    \/ Step("timer")
    \/ Start("debugger")
    \/ Step("debugger")
    \/ clear_database

SpecDebugger == InitDebugger /\ [][NextDebugger]_vars

\* The timer's indexer and the debugger's clear_database; nothing fails.
NextMaintenance ==
    \/ Start("timer")
    \/ Step("timer")
    \/ clear_database

SpecMaintenance == InitDebugger /\ [][NextMaintenance]_vars

\* The search process starting at any moment of the timer's cycles; nothing
\* fails.
Load(refiners) ==
    \/ \E em \in BOOLEAN, rm \in refiners : Import(em, rm)
    \/ InitReadIndex
    \/ InitReadMap

NextLoad ==
    \/ Start("timer")
    \/ Step("timer")
    \/ Load(BOOLEAN)

SpecLoad == InitDebugger /\ [][NextLoad]_vars

\* Documents told apart by their text: document k holds k letters.
DocText(k) == [i \in 1..k |-> "h"]

InitQuery ==
    /\ InitWith({fs \in [Keys -> {NoFile} \cup {TextFile(DocText(k)) : k \in Keys}] :
                    \A k \in Keys : fs[k] \in {NoFile, TextFile(DocText(k))}})
    /\ conf = [cap |-> 0, budget |-> FALSE]     \* the fallback values

Queries == {DocText(2)}

\* The search process answering semantic queries beside the timer's cycles,
\* the retention cleanup and the debugger's clear_database; the refiner,
\* which these queries do not call, is configured.
NextQuery ==
    \/ Start("timer")
    \/ Step("timer")
    \/ Load({TRUE})
    \/ \E q \in Queries, k \in {SmallK, NUM_RESULTS} : GetFaissMatches(q, k)
    \/ \E k \in Keys : DeleteDoc(k)
    \/ clear_database

SpecQuery == InitQuery /\ [][NextQuery]_vars

\* The search process answering semantic and hybrid queries beside the
\* timer's cycles.
NextHybrid ==
    \/ Start("timer")
    \/ Step("timer")
    \/ Load(BOOLEAN)
    \/ \E q \in Queries, k \in {SmallK, NUM_RESULTS} : GetFaissMatches(q, k)
    \/ \E q \in Queries, rout \in RefinerOutcomes, kout \in RecollOutcomes :
          HybridSearch(q, rout, kout)

SpecHybrid == InitQuery /\ [][NextHybrid]_vars

\* The debugger's rebuild_index and dry_run_rebuild_index, one call at a
\* time, with the Recoll step; nothing fails.
NextDryRun ==
    \/ \E dry \in BOOLEAN : StartCycle("debugger", dry)
    \/ \E run \in RecollRuns : run_recoll_incremental("debugger", run)
    \/ Step("debugger")

SpecDryRun == InitDebugger /\ [][NextDryRun]_vars

\* The identifier maps of at most MaxMap entries: entries in any order,
\* repeated entries, entries whose document is gone.
MaxMap == 2

IdMaps == UNION {[1..n -> Keys] : n \in 0..MaxMap}

\* A store holding the map m and as many vectors.
StoreOf(m) ==
    <<IndexFile([i \in 1..Len(m) |-> [id |-> i - 1, vec |-> Embed(<<" ", "h">>)]]),
      ListFile(m)>>

\* One cycle over any source and any stored map, no cap, no time budget;
\* nothing fails.
InitUnseen ==
    /\ InitOver([Keys -> {NoFile, TextFile(<<" ", "h">>)}],
                {StoreOf(m) : m \in IdMaps})
    /\ conf = [cap |-> 0, budget |-> FALSE]     \* the fallback values

NextUnseen ==
    \/ Start("timer")
    \/ Step("timer")

SpecUnseen == InitUnseen /\ [][NextUnseen]_vars

\* A single indexer over a fixed source of documents with text, the cap
\* edited between or during cycles; no time budget, nothing fails.
InitCap ==
    /\ InitWith([Keys -> {NoFile, TextFile(<<" ", "h">>)}])
    /\ conf.budget = FALSE

NextCap ==
    \/ Start("timer")
    \/ Step("timer")
    \/ \E c \in Caps : EditConf(c)

SpecCap == InitCap /\ [][NextCap]_vars

\* A single indexer over a fixed source, with the fallback configuration,
\* whose embedding calls and file writes may fail and which may be killed.
NextWrites ==
    \/ Start("timer")
    \/ Step("timer")
    \/ Fault("timer")
    \/ \E torn \in BOOLEAN : Kill("timer", torn)

SpecWrites == InitDebugger /\ [][NextWrites]_vars

\* A single indexer over a fixed source, possibly empty, with the fallback
\* configuration, on a machine where the embedding model may fail to load.
NextEmpty ==
    \/ Start("timer")
    \/ Step("timer")
    \/ LoadModelFails("timer")

SpecEmpty == InitDebugger /\ [][NextEmpty]_vars

\* A single indexer over documents told apart by their text, with the
\* fallback configuration; the process may be killed and the capture daemon
\* writes new documents.
NextOrdinals ==
    \/ Start("timer")
    \/ Step("timer")
    \/ \E torn \in BOOLEAN : Kill("timer", torn)
    \/ \E k \in Keys : WriteDoc(k, TextFile(DocText(k)))

SpecOrdinals == InitQuery /\ [][NextOrdinals]_vars

\* A single indexer, with any cap, whose embedding calls and file writes
\* may fail and which may be killed, while the retention cleanup deletes
\* documents.
NextAppend ==
    \/ Start("timer")
    \/ Step("timer")
    \/ Fault("timer")
    \/ \E torn \in BOOLEAN : Kill("timer", torn)
    \/ \E k \in Keys : DeleteDoc(k)

SpecAppend == InitCap /\ [][NextAppend]_vars

\* The timer's indexer, the debugger's rebuild_index and the search process
\* on a machine where the embedding model may fail to load.
NextModelLoad ==
    \/ Start("timer")
    \/ Step("timer")
    \/ Start("debugger")
    \/ Step("debugger")
    \/ \E p \in Procs : LoadModelFails(p)
    \/ Load({TRUE})
    \/ \E q \in Queries : GetFaissMatches(q, NUM_RESULTS)

InitModelLoad ==
    /\ InitWith({[k \in Keys |-> TextFile(DocText(k))]})
    /\ conf = [cap |-> 0, budget |-> FALSE]     \* the fallback values

SpecModelLoad == InitModelLoad /\ [][NextModelLoad]_vars

\* The search process answering hybrid queries step by step, with backends
\* that may never answer, beside the timer's cycles.
NextCalls ==
    \/ Start("timer")
    \/ Step("timer")
    \/ Load(BOOLEAN)
    \/ \E q \in Queries, h \in Hangs : CallHybridSearch(q, h)
    \/ HybridStep

SpecCalls == InitQuery /\ [][NextCalls]_vars

\* ================================================================ claims

\* C1: after every batch commit that completes, the persisted identifier
\* map has exactly as many entries as the persisted vector index has
\* vectors (single indexer, embedding calls and file writes may fail).
C1_CommitKeepsSizesEqual ==
    \A p \in Procs :
        pc[p] = "committed" =>
            /\ diskIndex.kind = "index"
            /\ diskMap.kind = "list"
            /\ Len(diskMap.data) = Len(diskIndex.data)

\* An invocation is past its entry: it has begun to load the store.
Active(p) == pc[p] \notin {"idle", "load_index"}

\* C2: at most one indexing cycle is active against the store at any time:
\* an invocation started while another cycle runs never gets past its
\* entry, so two cycles never interleave their loads, embeddings or writes.
C2_OneCycleAtATime ==
    \A p, q \in Procs : p # q => ~(Active(p) /\ Active(q))

\* C4: a cycle never continues from a loaded pair that violates the size
\* invariant: such a pair is discarded and the cycle continues from an
\* empty vector index and an empty map.
C4_MismatchedPairDiscarded ==
    \A p \in Procs :
        pc[p] = "reconcile" => Len(faiss_index[p]) = Len(id_to_filepath_map[p])

\* C5: when the identifier map of an existing pair cannot be read or is
\* not a list, the cycle continues with an empty vector index and an empty
\* map: persisted vectors are never kept alongside a reinitialised map.
C5_ReinitialisedMapHasFreshIndex ==
    \A p \in Procs :
        pc[p] = "reconcile" /\ id_to_filepath_map[p] = <<>> => faiss_index[p] = Fresh

StrictlyIncreasing(ids) ==
    \A i, j \in 1..Len(ids) : i < j => ids[i] < ids[j]

\* C6: the ordinals given to committed documents are strictly increasing
\* and none is assigned twice: no vector is ever added to the index under
\* an ordinal already present in it, in memory or in the persisted index.
C6_OrdinalsNeverReused ==
    /\ \A p \in Procs : StrictlyIncreasing(Ids(faiss_index[p]))
    /\ StrictlyIncreasing(Ids(diskIndex.data))

\* A document the cycle embeds when it reads it
Embeddable(k) == files[k].st = "ok" /\ ~IsBlank(files[k].content)

\* The store one uninterrupted cycle without failure and without time
\* budget leaves, started on the persisted map m with cap c
Uninterrupted(m, c) ==
    m \o SelectSeq(ApplyCap(get_unprocessed_files(m), c), Embeddable)

\* The vector index in which ordinal i - 1 holds the embedding of m[i]
IndexOf(m) ==
    [i \in 1..Len(m) |-> [id |-> i - 1, vec |-> Embed(files[m[i]].content)]]

Resumed ==
    /\ Idle("timer")
    /\ hist.last = "done"
    /\ hist.prev = "killed"
    /\ ~conf.budget

CapCuts(m) == conf.cap # 0 /\ Len(get_unprocessed_files(m)) > conf.cap

\* C3 as stated: a cycle killed between two batches and then run again
\* leaves the store an uninterrupted cycle produces (same entry count, same
\* document at every ordinal).
C3_ResumeEqualsUninterrupted ==
    Resumed =>
        /\ diskMap.data = Uninterrupted(hist.prevStart, conf.cap)
        /\ diskIndex.data = IndexOf(diskMap.data)

\* C3, amended: the same when the cap does not cut the unseen list of the
\* interrupted cycle and no time budget is configured; and every cycle
\* that returns has produced the store of an uninterrupted cycle on the
\* map it started from.
C3_ResumeEqualsUninterruptedUncut ==
    /\ (Idle("timer") /\ hist.last = "done" /\ ~conf.budget) =>
            /\ diskMap.data = Uninterrupted(hist.start, conf.cap)
            /\ diskIndex.data = IndexOf(diskMap.data)
    /\ (Resumed /\ ~CapCuts(hist.prevStart)) =>
            /\ diskMap.data = Uninterrupted(hist.prevStart, conf.cap)
            /\ diskIndex.data = IndexOf(diskMap.data)

C3_Witness ==
    /\ Resumed
    /\ ~CapCuts(hist.prevStart)
    /\ Len(hist.start) >= Len(hist.prevStart) + BATCH_SIZE
    /\ Len(diskMap.data) > Len(hist.start)

TwoCyclesInARow ==
    /\ Idle("timer")
    /\ hist.last = "done"
    /\ hist.prev \in {"done", "clean"}

StoreAsAtStart ==
    /\ diskMap.data = hist.start
    /\ Len(diskIndex.data) = hist.startN

\* C7 as stated: the second of two cycles run in a row over an unchanged
\* source adds nothing: map and vector count are those after the first.
C7_SecondCycleAddsNothing == TwoCyclesInARow => StoreAsAtStart

\* C7, amended: the same when the first cycle was neither cut by the cap
\* nor stopped by the time budget (and nothing failed in it).
C7_SecondCycleAddsNothingAfterClean ==
    (TwoCyclesInARow /\ hist.prev = "clean") => StoreAsAtStart

C7_Witness ==
    /\ TwoCyclesInARow
    /\ hist.prev = "clean"
    /\ Len(diskMap.data) >= 2
    /\ \E k \in Keys : files[k].st = "ok" /\ IsBlank(files[k].content)

\* C8: under repeated cycles over a fixed source with a working embedding
\* provider, every readable document with non-empty content is eventually
\* committed, whatever the cap and the other documents of the source.
C8_EveryDocEventuallyIndexed ==
    <>(\A k \in Keys : Embeddable(k) => k \in Range(diskMap.data))

\* a.txt and c.txt with text, b.txt of whitespace only
ScenarioSource ==
    [k \in Keys |-> IF k \in {1, 3} THEN TextFile(<<" ", "h">>)
                    ELSE IF k = 2 THEN TextFile(<<" ", " ">>)
                    ELSE NoFile]

ScenarioCycleDone ==
    /\ files = ScenarioSource
    /\ Idle("timer")
    /\ hist.last = "done"
    /\ hist.start = <<>>
    /\ ~hist.trunc

\* Ordinals 0, 1, ... in order, each with the embedding of a text that is
\* not blank
NoBlankVector(ix) ==
    \A i \in 1..Len(ix) :
        /\ ix[i].id = i - 1
        /\ \E c \in Contents : ~IsBlank(c) /\ ix[i].vec = Embed(c)

\* C9: a document whose content is empty or all-whitespace is never
\* queued or embedded, never gets an entry in the identifier map and
\* consumes no ordinal; a cycle over a.txt, b.txt (whitespace), c.txt on
\* an empty store gives exactly a.txt at ordinal 0 and c.txt at ordinal 1.
C9_BlankNeverIndexed ==
    /\ \A p \in Procs :
          /\ \A k \in Range(batch_paths[p]) \cup Range(id_to_filepath_map[p]) :
                Embeddable(k)
          /\ \A i \in 1..Len(batch_texts[p]) : ~IsBlank(batch_texts[p][i])
          /\ NoBlankVector(faiss_index[p])
          /\ pc[p] # "load_map" => faiss_index[p] = IndexOf(id_to_filepath_map[p])
    /\ \A k \in Range(diskMap.data) : Embeddable(k)
    /\ NoBlankVector(diskIndex.data)
    /\ Idle("timer") => diskIndex.data = IndexOf(diskMap.data)
    /\ ScenarioCycleDone =>
          /\ diskMap.data = <<1, 3>>
          /\ Ids(diskIndex.data) = <<0, 1>>

C9_Witness ==
    /\ ScenarioCycleDone
    /\ diskMap.data = <<1, 3>>
    /\ 2 \in hist.skipped

\* C10: once a cycle has skipped a blank document, that document does not
\* appear again in the unseen list a later cycle processes.
C10_SkippedNeverRetried ==
    \A p \in Procs :
        (pc[p] = "loop" /\ pos[p] = 1) =>
            Range(unprocessed_files[p]) \cap hist.skipped = {}

\* No key occurs twice in the sequence.
NoDuplicates(m) == \A i, j \in 1..Len(m) : m[i] = m[j] => i = j

\* C11: a document that is in the identifier map is never embedded again,
\* even if its content has changed: it never enters a batch of an invocation
\* that loaded it, and no key occurs more than once in the identifier map,
\* in memory or persisted (single indexer; calls may fail, the process may
\* be killed).
C11_MappedNeverEmbeddedAgain ==
    /\ NoDuplicates(diskMap.data)
    /\ \A p \in Procs :
          /\ NoDuplicates(id_to_filepath_map[p])
          /\ pc[p] \in {"loop", "flush"} =>
                Range(batch_paths[p]) \cap Range(id_to_filepath_map[p]) = {}
          /\ pc[p] = "loop" =>
                Range(unprocessed_files[p]) \cap Range(id_to_filepath_map[p])
                    \subseteq Range(SubSeq(unprocessed_files[p], 1, pos[p] - 1))

\* A cycle that started with a rewritten document in the persisted map has
\* returned: the document is in the map once, with the vector of its
\* former content.
C11_Witness ==
    /\ Idle("timer")
    /\ hist.last = "done"
    /\ diskMap.kind = "list"
    /\ diskIndex.kind = "index"
    /\ Len(diskIndex.data) = Len(diskMap.data)
    /\ \E i \in 1..Len(diskMap.data) :
          /\ diskMap.data[i] \in hist.stale
          /\ files[diskMap.data[i]].st = "ok"
          /\ ~IsBlank(files[diskMap.data[i]].content)
          /\ diskIndex.data[i].vec # Embed(files[diskMap.data[i]].content)
          /\ \A j \in 1..Len(diskMap.data) : diskMap.data[j] = diskMap.data[i] => j = i

\* C12: a read failure for one document does not abort its batch or the
\* cycle: the document gets no map entry (it is in no batch and in no map),
\* a cycle that returns without being stopped by the time budget has
\* committed every other non-blank readable document of its unseen list, and
\* the failed document is again in the unseen list of the next cycle.
C12_ReadFailureSkipsOneDocument ==
    /\ \A k \in hist.failed :
          /\ k \notin Range(diskMap.data)
          /\ \A p \in Procs :
                k \notin Range(id_to_filepath_map[p]) \cup Range(batch_paths[p])
    /\ (Idle("timer") /\ hist.last = "done" /\ ~conf.budget) =>
          \A k \in Range(ApplyCap(get_unprocessed_files(hist.start), conf.cap)) :
              Embeddable(k) => k \in Range(diskMap.data)
    /\ \A p \in Procs :
          (pc[p] = "loop" /\ pos[p] = 1) =>
              hist.failed \subseteq Range(unprocessed_files[p])

\* b.txt could not be read, a.txt and c.txt around it were committed
\* together, and a later cycle has tried b.txt again.
C12_Witness ==
    /\ Idle("timer")
    /\ hist.last = "done"
    /\ hist.prev \in {"done", "clean"}
    /\ files[2] = Unreadable
    /\ 2 \in hist.failed
    /\ diskMap = ListFile(<<1, 3>>)
    /\ diskIndex.kind = "index"
    /\ Len(diskIndex.data) = 2

\* C13: when the embedding call for a batch raises, the whole batch is
\* skipped: none of its documents is in the in-memory or the persisted map,
\* no vector is added without its map entry, the cycle goes on (when it
\* returns without being stopped by the time budget, every other non-blank
\* readable document of its unseen list is committed), and the documents of
\* the skipped batch are unseen for the persisted map.
C13_FailedEmbeddingSkipsBatch ==
    /\ \A k \in hist.dropped :
          /\ k \notin Range(diskMap.data)
          /\ \A p \in Procs : k \notin Range(id_to_filepath_map[p])
          /\ k \in Range(get_unprocessed_files(diskMap.data))
    /\ \A p \in Procs :
          pc[p] # "load_map" => Len(faiss_index[p]) = Len(id_to_filepath_map[p])
    /\ Len(diskIndex.data) \in {Len(diskMap.data),
                                 Len(diskMap.data) + Len(batch_paths["timer"])}
    /\ (Idle("timer") /\ hist.last = "done" /\ ~conf.budget) =>
          \A k \in Range(ApplyCap(get_unprocessed_files(hist.start), conf.cap)) :
              (Embeddable(k) /\ k \notin hist.dropped) => k \in Range(diskMap.data)

\* The embedding call raised for the batch of a.txt and b.txt, and the cycle
\* went on to commit the batch of c.txt and d.txt.
C13_Witness ==
    /\ Idle("timer")
    /\ hist.last = "done"
    /\ hist.dropped = {1, 2}
    /\ diskMap = ListFile(<<3, 4>>)
    /\ Ids(diskIndex.data) = <<0, 1>>

\* C14: when persisting a batch fails, the in-memory index and map are not
\* advanced past the last successful commit: when flush_batch is left,
\* either the batch is persisted (the two files hold what is in memory) or
\* memory holds no entry of the batch.
C14_FailedWriteKeepsMemoryAtLastCommit ==
    \A p \in Procs :
        (pc[p] = "flush_exit" /\ batch_paths[p] # <<>>) =>
            \/ /\ diskIndex = IndexFile(faiss_index[p])
               /\ diskMap = ListFile(id_to_filepath_map[p])
            \/ /\ Range(batch_paths[p]) \cap Range(id_to_filepath_map[p]) = {}
               /\ Len(faiss_index[p]) = Len(id_to_filepath_map[p])

\* C15: a search process that loads the store while an indexer is
\* committing never holds a torn pair: once it has loaded, its index and its
\* map come from the same commit, so they have the same size and every
\* ordinal of its index is a position of its map.
C15_SearchNeverLoadsTornPair ==
    (spc = "ready" /\ search_faiss_index.kind = "index") =>
        /\ Len(search_faiss_index.data) = Len(search_id_map)
        /\ \A i \in 1..Len(search_faiss_index.data) :
              search_faiss_index.data[i].id \in 0..(Len(search_id_map) - 1)

\* C16: no query operation changes the Index Store: over every step in
\* which get_faiss_matches or hybrid_search (with refine_query_with_gemini
\* and get_recoll_matches inside it) gives an answer, the persisted index
\* file, the persisted map, and the search process's in-memory index and map
\* stay as they were.
C16_QueriesLeaveStoreAlone ==
    [][answer' # answer =>
          UNCHANGED <<diskIndex, diskMap, search_faiss_index, search_id_map>>]_vars

\* A hybrid query and a semantic query have been answered with semantic
\* matches out of a loaded snapshot.
C16_Witness ==
    /\ answer.call \in {"hybrid", "faiss"}
    /\ answer.faiss # <<>>
    /\ search_faiss_index = diskIndex
    /\ ListFile(search_id_map) = diskMap
    /\ Len(search_id_map) >= BATCH_SIZE

\* C17: any failure of the keyword backend, a non-zero exit as well as a
\* missing executable, makes get_recoll_matches give an empty list, so that
\* hybrid_search does not raise and gives exactly the semantic results.
C17_KeywordFailureGivesSemanticResults ==
    (answer.call = "hybrid" /\ answer.recoll \in {"nonzero", "missing"}) =>
        /\ ~answer.raised
        /\ answer.results =
              get_faiss_matches(answer.query, NUM_RESULTS, search_faiss_index,
                                search_id_map, embedding_model, answer.files).results

\* The matches the index returns for the last query, without the fill-ins.
AnswerHits ==
    SelectSeq(FaissSearch(search_faiss_index.data, Embed(answer.query), answer.k),
              LAMBDA h : h.label # -1)

\* Every ordinal of the loaded index is a position of the loaded map.
SnapshotResolves ==
    \A i \in 1..Len(search_faiss_index.data) :
        search_faiss_index.data[i].id \in 0..(Len(search_id_map) - 1)

\* C18: when the document file behind a returned ordinal has been deleted
\* since it was indexed, get_faiss_matches skips that result only: it gives
\* a result for every other returned ordinal, in the same order.
C18_DeletedDocumentSkipsOneResult ==
    (/\ answer.call = "faiss"
     /\ ~Unavailable(search_faiss_index, search_id_map, embedding_model)
     /\ SnapshotResolves) =>
        LET good == SelectSeq(AnswerHits,
                              LAMBDA h : answer.files[search_id_map[h.label + 1]].st = "ok")
        IN  answer.results =
                [j \in 1..Len(good) |->
                    [source |-> "faiss (open-source)",
                     content |-> answer.files[search_id_map[good[j].label + 1]].content,
                     distance |-> good[j].distance]]

\* C19: if the vector index, the identifier map or the embedding model is
\* not loaded (absent, empty, or its load failed), get_faiss_matches gives an
\* empty list and raises nothing.
C19_NotLoadedGivesEmpty ==
    (/\ answer.call = "faiss"
     /\ \/ search_faiss_index.kind = "none"
        \/ search_id_map = <<>>
        \/ ~embedding_model) =>
        /\ ~answer.raised
        /\ answer.results = <<>>

\* A semantic query has been answered by a process that holds an index with
\* vectors, a model, and no map entry.
C19_Witness ==
    /\ answer.call = "faiss"
    /\ search_faiss_index.kind = "index"
    /\ Len(search_faiss_index.data) > 0
    /\ search_id_map = <<>>
    /\ embedding_model

\* The result get_faiss_matches is to give for a returned match.
ExpectedResult(h) ==
    [source |-> "faiss (open-source)",
     content |-> answer.files[search_id_map[h.label + 1]].content,
     distance |-> h.distance]

\* C20: for a semantic query with result count k over an index of n
\* vectors, get_faiss_matches gives at most min(k, n) results, none of them
\* for a fill-in ordinal -1; every result has the content of the document
\* the map names at a returned ordinal, and the results are in the order in
\* which the index returned these ordinals.
C20_ResultsFollowReturnedOrdinals ==
    answer.call = "faiss" =>
        /\ Len(answer.results) <= Min({answer.k, Len(search_faiss_index.data)})
        /\ LET hits == AnswerHits
               named == {i \in 1..Len(hits) :
                            hits[i].label \in 0..(Len(search_id_map) - 1)}
           IN  \E S \in SUBSET named :
                  LET at == Sorted(S)
                  IN  answer.results =
                          [j \in 1..Len(at) |-> ExpectedResult(hits[at[j]])]

\* Four documents are indexed in the order a, b, c, d; a query nearest to
\* b.txt asks for more results than there are vectors and gets four, b.txt
\* first.
C20_Witness ==
    /\ answer.call = "faiss"
    /\ answer.k = NUM_RESULTS
    /\ search_id_map = <<1, 2, 3, 4>>
    /\ Len(search_faiss_index.data) = 4
    /\ Len(answer.results) = 4
    /\ answer.results[1].content = DocText(2)
    /\ answer.results[1].distance = 0
    /\ answer.results[2].content = DocText(1)

\* C21: the semantic results of hybrid_search do not depend on the refiner:
\* for the same query, keyword outcome and loaded snapshot, two calls that
\* differ only in whether the refiner is configured and in what it gives
\* (a text, an exception) pass the same original query to
\* get_faiss_matches and get the same semantic results (every call is
\* compared with the call made without a refiner), and get_recoll_matches
\* alone is given the refined query.
C21_SemanticResultsIgnoreRefiner ==
    /\ spc = "ready" =>
          \A q \in Queries, kout \in RecollOutcomes :
              LET two == hybrid_search(q, FALSE, CHOOSE r \in RefinerOutcomes : TRUE,
                                       kout, search_faiss_index, search_id_map,
                                       embedding_model, files)
              IN  \A rm \in BOOLEAN, r \in RefinerOutcomes :
                      LET one == hybrid_search(q, rm, r, kout, search_faiss_index,
                                               search_id_map, embedding_model, files)
                      IN  /\ one.faiss = two.faiss
                          /\ one.faiss_query = two.faiss_query
                          /\ one.raised = two.raised
    /\ answer.call = "hybrid" =>
          /\ ~answer.raised => answer.faiss_query = answer.query
          /\ answer.refiner = "ok" => answer.recoll_query # answer.query

\* A hybrid query whose refiner gave another query has been answered with
\* the semantic match of the original query.
C21_Witness ==
    /\ answer.call = "hybrid"
    /\ answer.refiner = "ok"
    /\ answer.recoll_query = <<"r">>
    /\ answer.faiss_query = DocText(2)
    /\ Len(answer.faiss) >= 2
    /\ answer.faiss[1].distance = 0
    /\ answer.faiss[1].content = DocText(2)

\* C22: if the refiner is not configured or its call raises,
\* refine_query_with_gemini gives the original query unchanged and
\* hybrid_search goes on with the keyword and the semantic search: both are
\* given the original query, and the call raises only if the keyword
\* backend cannot be run.
C22_RefinerFailureFallsBack ==
    (answer.call = "hybrid" /\ answer.refiner \in {"unconfigured", "raised"}) =>
        /\ answer.recoll_query = answer.query
        /\ answer.raised => answer.recoll = "missing"
        /\ ~answer.raised =>
              /\ answer.faiss_query = answer.query
              /\ answer.results = answer.keyword \o answer.faiss

\* The refiner raised, and the call gave keyword and semantic results.
C22_Witness ==
    /\ answer.call = "hybrid"
    /\ answer.refiner = "raised"
    /\ ~answer.raised
    /\ answer.keyword # <<>>
    /\ answer.faiss # <<>>

\* C23: hybrid_search gives the keyword results followed by the semantic
\* results, each list in the order its source gave it, nothing removed,
\* merged or reordered.
C23_KeywordThenSemantic ==
    (answer.call = "hybrid" /\ ~answer.raised) =>
        /\ Len(answer.results) = Len(answer.keyword) + Len(answer.faiss)
        /\ \A i \in 1..Len(answer.keyword) : answer.results[i] = answer.keyword[i]
        /\ \A j \in 1..Len(answer.faiss) :
              answer.results[Len(answer.keyword) + j] = answer.faiss[j]

\* Two keyword results and two semantic results came back, in that order.
C23_Witness ==
    /\ answer.call = "hybrid"
    /\ ~answer.raised
    /\ Len(answer.keyword) = 2
    /\ Len(answer.faiss) >= 2
    /\ answer.results[1].source = "recoll"
    /\ answer.results[3].source = "faiss (open-source)"

\* C24: hybrid_search always returns: a call in progress is never left
\* waiting for good; whatever the refiner or the keyword backend does, the
\* call has a step to take (the backend's answer, or the timeout that
\* abandons the sub-call) and so comes to its return.
C24_HybridSearchAlwaysReturns == hs.pc # "idle" => ENABLED HybridStep

\* C25: a failure to load the embedding model is never fatal to the caller:
\* no indexing cycle ends by an exception that leaves the script, and in a
\* search process without the model a semantic query gives an empty list
\* and does not raise.
C25_ModelLoadFailureNeverFatal ==
    /\ hist.last # "raised"
    /\ (answer.call = "faiss" /\ ~embedding_model) =>
          (~answer.raised /\ answer.results = <<>>)

\* C26: a cycle run with dry_run=True writes nothing: while it runs, the
\* vector index file, the identifier map file and the Recoll index stay
\* exactly as they were before the call.
C26_DryRunWritesNothing ==
    [][\A p \in Procs :
          (dry_run[p] /\ pc[p] # "idle") =>
              /\ diskIndex' = diskIndex
              /\ diskMap' = diskMap
              /\ recoll_index' = recoll_index]_vars

\* What a list of keys must be to be the unseen list of the map m: the
\* documents present in the source and not named by m, each once, in
\* ascending order of key.
IsUnseenList(u, m) ==
    /\ Range(u) = {k \in Keys : files[k].st # "absent" /\ \A i \in 1..Len(m) : m[i] # k}
    /\ \A i, j \in 1..Len(u) : i < j => u[i] < u[j]

\* C27: for every identifier map and every source, get_unprocessed_files
\* gives exactly the documents present in the source and absent from the
\* map, each once, in ascending order of key, and the list depends on
\* nothing but the source and the set of entries of the map (stated for
\* every source, before any cycle has run); the list a cycle works on is
\* that list.
C27_UnseenListExactSortedDeterministic ==
    /\ hist.last = "none" =>
          \A m \in IdMaps :
              /\ IsUnseenList(get_unprocessed_files(m), m)
              /\ get_unprocessed_files(m) = get_unprocessed_files(Sorted(Range(m)))
    /\ \A p \in Procs :
          (pc[p] = "loop" /\ pos[p] = 1) =>
              IsUnseenList(unprocessed_files[p], id_to_filepath_map[p])

\* A cycle has listed the two unseen documents, in order, beside a map that
\* names a present document and, after it, one that is gone.
C27_Witness ==
    /\ pc["timer"] = "loop"
    /\ pos["timer"] = 1
    /\ id_to_filepath_map["timer"] = <<3, 1>>
    /\ files[1] = NoFile
    /\ unprocessed_files["timer"] = <<2, 4>>

\* The sorted unseen list of the cycle in progress, as it was at its start.
UnseenAtStart == Sorted(GlobTxt \ Range(hist.start))

\* C28: with a cap of c and more than c unseen documents, a cycle works on
\* exactly the first c documents of the sorted unseen list and embeds no
\* other; whatever caps the cycles had, the documents get the ordinals of
\* their sorted order (cap 1 over unseen [1, 2, 3] embeds 1, a following
\* cycle without cap embeds 2 and 3, and the ordinals are 0, 1, 2).
C28_CapTakesFirstDocuments ==
    /\ \A p \in Procs :
          (/\ pc[p] \notin {"idle", "load_index", "load_map", "reconcile"}
           /\ cap[p] # 0
           /\ Len(UnseenAtStart) > cap[p]) =>
              /\ unprocessed_files[p] = SubSeq(UnseenAtStart, 1, cap[p])
              /\ Range(id_to_filepath_map[p]) \ Range(hist.start)
                     \subseteq Range(unprocessed_files[p])
              /\ Range(diskMap.data) \ Range(hist.start)
                     \subseteq Range(unprocessed_files[p])
    /\ (diskMap.kind = "list" /\ \A p \in Procs : pc[p] # "write_map") =>
          /\ diskMap.data = SubSeq(Sorted(GlobTxt), 1, Len(diskMap.data))
          /\ Ids(diskIndex.data) = [i \in 1..Len(diskMap.data) |-> i - 1]

\* Over the source 1, 2, 3 a capped cycle embedded document 1 only, and the
\* following cycle, without cap, has embedded 2 and 3 after it.
C28_Witness ==
    /\ GlobTxt = {1, 2, 3}
    /\ Idle("timer")
    /\ hist.last = "done"
    /\ hist.prev = "done"
    /\ hist.start = <<1>>
    /\ ~hist.trunc
    /\ conf.cap = 0
    /\ diskMap.data = <<1, 2, 3>>
    /\ Ids(diskIndex.data) = <<0, 1, 2>>

\* The invocation left its loop on the time budget: the residual flush is
\* under way or done, and the loop stopped at a document of the list.
StoppedOnBudget(p) ==
    /\ budget[p]
    /\ pc[p] \in {"flush", "write_index", "write_map", "committed", "flush_exit"}
    /\ ret[p] = "end"
    /\ pos[p] <= Len(unprocessed_files[p])

\* C29: when the time budget is exceeded, no further document is queued
\* (what the cycle holds and adds comes from the documents consumed so
\* far), the batch in progress is embedded and committed before the cycle
\* ends (once the residual flush is done every consumed document with text
\* is in the persisted map, beside as many vectors), the cycle is still a
\* running one that goes on to its return, and the documents not yet
\* consumed are in no map: they are unseen for the next cycle.
C29_BudgetStopCommitsBatchInProgress ==
    \A p \in Procs :
        StoppedOnBudget(p) =>
            LET u == unprocessed_files[p]
                consumed == {u[i] : i \in 1..pos[p]}
                rest == {u[i] : i \in (pos[p] + 1)..Len(u)}
            IN  /\ Range(batch_paths[p]) \subseteq consumed
                /\ Range(id_to_filepath_map[p]) \ Range(hist.start) \subseteq consumed
                /\ Range(diskMap.data) \ Range(hist.start) \subseteq consumed
                /\ rest \cap Range(id_to_filepath_map[p]) = {}
                /\ rest \cap Range(diskMap.data) = {}
                /\ rest \subseteq Range(get_unprocessed_files(diskMap.data))
                /\ hist.last = "running"
                /\ pc[p] = "flush_exit" =>
                      /\ \A k \in consumed : Embeddable(k) => k \in Range(diskMap.data)
                      /\ diskMap.kind = "list"
                      /\ diskIndex.kind = "index"
                      /\ Len(diskIndex.data) = Len(diskMap.data)
                      /\ ENABLED FlushReturn(p)

\* The budget stopped a cycle after one document of an unfinished batch:
\* the document has been committed and the cycle is about to return, two
\* documents being left for the next cycle.
C29_Witness ==
    /\ StoppedOnBudget("timer")
    /\ pc["timer"] = "flush_exit"
    /\ cap["timer"] = 0
    /\ hist.start = <<>>
    /\ pos["timer"] = 1
    /\ Len(unprocessed_files["timer"]) = 3
    /\ diskMap.data = <<unprocessed_files["timer"][1]>>

\* C30: every batch is persisted on its own: when flush_batch returns into
\* the loop after a batch that was embedded, and no write has failed, index
\* file and map file hold what the invocation holds, that batch included.
\* Within a commit the map file is written only after the index file: the
\* map file changes only in an invocation that has just written the index
\* it holds, extended with the batch, never before the index and never
\* without it.
C30_BatchPersistedIndexThenMap ==
    [][/\ \A p \in Procs :
            (/\ pc[p] = "flush_exit"
             /\ batch_paths[p] # <<>>
             /\ Range(batch_paths[p]) \subseteq Range(id_to_filepath_map[p])
             /\ faults = 0) =>
                /\ diskIndex = IndexFile(faiss_index[p])
                /\ diskMap = ListFile(id_to_filepath_map[p])
       /\ diskMap' # diskMap =>
            \E p \in Procs :
                /\ pc[p] = "write_map"
                /\ diskIndex = IndexFile(faiss_index[p])
                /\ Range(batch_paths[p]) \subseteq Range(id_to_filepath_map[p])
                /\ diskIndex' = diskIndex]_vars

\* A first batch has been committed on its own, index then map, and the
\* cycle is back in its loop with documents left.
C30_Witness ==
    /\ pc["timer"] = "flush_exit"
    /\ ret["timer"] = "loop"
    /\ Len(batch_paths["timer"]) = BATCH_SIZE
    /\ pos["timer"] < Len(unprocessed_files["timer"])
    /\ diskMap = ListFile(batch_paths["timer"])
    /\ Len(diskIndex.data) = BATCH_SIZE

\* The unseen list the reconciliation of p is about to find.
UnseenFound(p) == ApplyCap(get_unprocessed_files(id_to_filepath_map[p]), cap[p])

\* C31: when reconciliation finds an empty unseen list the cycle ends at
\* once with zero additions: its next step is the return, which leaves the
\* index file and the map file as they are; the cycle does not reach the
\* loading of the embedding model, which stands at the entry of the loop,
\* nor any embedding call or write.
C31_EmptyUnseenListEndsCycle ==
    [][\A p \in Procs :
          (/\ pc[p] = "reconcile"
           /\ UnseenFound(p) = <<>>
           /\ pc'[p] # pc[p]) =>
              /\ pc'[p] = "idle"
              /\ hist'.last = "done"
              /\ diskIndex' = diskIndex
              /\ diskMap' = diskMap
              /\ added_files_count[p] = 0
              /\ faults' = faults]_vars

\* A cycle over a fully reconciled store has returned: the store is the one
\* it found, two documents under two ordinals.
C31_Witness ==
    /\ Idle("timer")
    /\ hist.last = "done"
    /\ hist.prev = "clean"
    /\ Len(hist.start) = 2
    /\ hist.startN = 2
    /\ diskMap = ListFile(hist.start)
    /\ Len(diskIndex.data) = 2
    /\ get_unprocessed_files(diskMap.data) = <<>>

\* C32: after every completed commit, for every position i of the persisted
\* map there is a vector under ordinal i - 1 in the persisted index, and
\* every vector stored under that ordinal is the embedding of the text of
\* the document at position i (the documents are never rewritten here, so
\* the text is the one that was read).
C32_VectorAtOrdinalIsItsDocument ==
    \A p \in Procs :
        pc[p] = "committed" =>
            /\ diskMap.kind = "list"
            /\ diskIndex.kind = "index"
            /\ \A i \in 1..Len(diskMap.data) :
                  /\ \E j \in 1..Len(diskIndex.data) : diskIndex.data[j].id = i - 1
                  /\ \A j \in 1..Len(diskIndex.data) :
                        diskIndex.data[j].id = i - 1 =>
                            diskIndex.data[j].vec = Embed(files[diskMap.data[i]].content)

IsPrefix(a, b) == Len(a) <= Len(b) /\ SubSeq(b, 1, Len(a)) = a

\* The most recent cycle found a readable index beside a list-shaped map
\* with entries: it loaded that map.
LoadedExistingMap == hist.start # <<>> /\ hist.startN > 0

\* C33: the identifier map is append-only across cycles: during and after a
\* cycle that loaded an existing list-shaped map, the persisted map is a
\* readable list of which the map persisted before the cycle is a prefix,
\* also when documents it names have been deleted.
C33_MapIsAppendOnly ==
    LoadedExistingMap =>
        /\ diskMap.kind = "list"
        /\ IsPrefix(hist.start, diskMap.data)

\* C34: a long-running search process works on the snapshot it loaded at
\* start: once init_search_components is through, no step (an indexer
\* commit, a query) changes the in-memory index or map of the search
\* process, and the loading is not entered again.
C34_SnapshotIsKept ==
    [][spc = "ready" =>
          /\ spc' = "ready"
          /\ search_faiss_index' = search_faiss_index
          /\ search_id_map' = search_id_map]_vars

\* A semantic query has been answered out of a snapshot of one batch
\* after the indexer committed a second batch.
C34_Witness ==
    /\ spc = "ready"
    /\ search_faiss_index.kind = "index"
    /\ Len(search_faiss_index.data) = BATCH_SIZE
    /\ Len(search_id_map) = BATCH_SIZE
    /\ diskIndex.kind = "index"
    /\ Len(diskIndex.data) > BATCH_SIZE
    /\ Len(diskMap.data) > BATCH_SIZE
    /\ answer.call = "faiss"
    /\ Len(answer.faiss) = BATCH_SIZE
    /\ answer.files = files

\* ---------------------------------------------------------------------
\* The Recoll update and the semantic phase that follows it
\* ---------------------------------------------------------------------

RecollStep(p) ==
    \/ \E run \in RecollRuns : run_recoll_incremental(p, run)
    \/ RecollKeepsRunning(p)
    \/ \E run \in RecollStops : RecollTimeLimit(p, run)

NextRecoll ==
    \/ \E sw \in Switches : StartCycleWith("timer", sw)
    \/ RecollStep("timer")
    \/ Step("timer")
    \/ \E k \in Keys : WriteDoc(k, TextFile(<<" ", "h">>))

\* A source with one document still to be written by the capture daemon
InitRecoll ==
    /\ InitWith({[k \in Keys |-> IF k = 1 THEN NoFile
                                 ELSE TextFile(<<" ", "h">>)]})
    /\ conf = [cap |-> 0, budget |-> FALSE]     \* the fallback values

SpecRecoll == InitRecoll /\ [][NextRecoll]_vars

InRecoll(p) == pc[p] \in {"recoll", "recoll_wait"}

\* C35 as stated: with ENABLE_FAISS set, a cycle in its Recoll update, a
\* recollindex that does not exit on its own included, can always go on,
\* whatever RECOLL_MAX_SECONDS is.
C35_RecollNeverHoldsTheCycle ==
    \A p \in Procs :
        InRecoll(p) /\ switches[p].faiss => ENABLED RecollStep(p)

\* C35 amended: with ENABLE_FAISS set the Recoll update, however it ends,
\* is followed by the loading of the semantic index, and with
\* RECOLL_MAX_SECONDS > 0 a recollindex that does not exit on its own is sent
\* SIGTERM and the cycle goes on.
C35_SemanticPhaseFollowsRecoll ==
    [][\A p \in Procs :
        /\ InRecoll(p) /\ ~InRecoll(p)' /\ switches[p].faiss
               => pc'[p] = "load_index" /\ hist'.last = "running"
        /\ InRecoll(p) /\ switches[p].faiss /\ switches[p].limit
               => ENABLED RecollStep(p)]_vars

C35_Witness ==
    /\ pc["timer"] = "load_index"
    /\ hist.recoll = "timeout_expired"
    /\ switches["timer"].faiss

\* ---------------------------------------------------------------------
\* The cycle after clean_faiss_index
\* ---------------------------------------------------------------------

NextClean ==
    \/ Start("timer")
    \/ Step("timer")
    \/ \E okIndex, okMap \in BOOLEAN : clean_faiss_index(okIndex, okMap)

SpecClean == InitDebugger /\ [][NextClean]_vars

EmbeddableDocs == {k \in Keys : Embeddable(k)}

\* C36: the first cycle started after a live clean_faiss_index that deleted
\* at least one of the two files has an empty index and an empty map once it has
\* loaded, and when it has completed (fallback configuration, nothing
\* failing, no further cleanup) the persisted map lists exactly the readable
\* non-empty documents and the persisted index holds one vector for each
\* ordinal from 0.
C36_CycleAfterCleanStartsEmpty ==
    hist.afterClean =>
        /\ \A p \in Procs :
              pc[p] = "reconcile" =>
                  faiss_index[p] = Fresh /\ id_to_filepath_map[p] = <<>>
        /\ hist.last = "done" /\ ~hist.cleaned /\ EmbeddableDocs # {} =>
              /\ diskMap.kind = "list"
              /\ diskIndex.kind = "index"
              /\ Range(diskMap.data) = EmbeddableDocs
              /\ Len(diskMap.data) = Cardinality(EmbeddableDocs)
              /\ Len(diskIndex.data) = Len(diskMap.data)
              /\ \A i \in 1..Len(diskIndex.data) : diskIndex.data[i].id = i - 1

\* ---------------------------------------------------------------------
\* The capture daemon's pause logic
\* ---------------------------------------------------------------------

InitDaemon ==
    /\ InitIndexing({[k \in Keys |-> NoFile]}, {<<NoArtifact, NoArtifact>>})
    /\ conf = [cap |-> 0, budget |-> FALSE]
    /\ daemon \in {Boot(cfg) : cfg \in Settings}

NextDaemon ==
    \/ \E out \in LoginctlOutcomes : Iterate(out)
    \/ \E b \in BOOLEAN : SuspendSignal(b)
    \/ \E b \in BOOLEAN : SetLocked(b)

SpecDaemon == InitDaemon /\ [][NextDaemon]_vars

\* C37: an iteration of the loop that called process_active_window read
\* _suspend_state as false when PAUSE_ON_SUSPEND is set, and when
\* PAUSE_WHEN_LOCKED is set the most recent loginctl check did not find the
\* session locked.
C37_NoCaptureWhilePaused ==
    daemon.iter = "captured" =>
        /\ ~(daemon.cfg.pause_suspend /\ daemon.iter_suspend)
        /\ ~(daemon.cfg.pause_locked /\ daemon.checked = "locked")

\* C38: a call of session_locked made less than _LOCK_CHECK_INTERVAL seconds
\* after the last check does not query loginctl and returns the lock state
\* that check determined.
C38_CachedLockStateReturned ==
    daemon.call.made /\ daemon.call.within =>
        /\ ~daemon.call.queried
        /\ daemon.call.prior # "none" => Hint(daemon.call.ret) = daemon.call.prior

====
